---- MODULE Spec2Model ----
(***************************************************************************)
(* Baymaxx monthly-invoice pipeline: the CSV classifier, the source        *)
(* identifier extractor, the last-4 matcher, the period validator, the     *)
(* billing aggregators (src/invoicing.py) and the monthly-import view      *)
(* that drives them (src/app.py, MonthlyImportView).                       *)
(*                                                                         *)
(* Text is modelled as sequences of one-character strings, so that the     *)
(* normalisations and the regular-expression searches of the code are      *)
(* computed on the characters.                                             *)
(***************************************************************************)
EXTENDS Integers, Sequences, FiniteSets, TLC

VARIABLES
    csv,          \* the CSV file an operation reads: [headers, rows]
    target,       \* [kind, year, month] passed to the period operations
    clients_doc,  \* the registry: sequence of clients > divisions > sites
    res,          \* results returned by the operations applied so far
    disk,         \* view: path -> the CSV file stored there
    tree,         \* view: rows of the Treeview, [file, type, phone, match, tags]
    year_var,     \* view: text of the Year entry
    month_var,    \* view: text of the Month entry
    inv_obj,      \* view: the invoice built by the last Continue
    msgbox        \* view: the last message box shown

inVars == <<csv, target, clients_doc>>
viewVars == <<disk, tree, year_var, month_var, inv_obj, msgbox>>
vars == <<csv, target, clients_doc, res,
          disk, tree, year_var, month_var, inv_obj, msgbox>>

----------------------------------------------------------------------------
(* Bounds *)

MaxHdrs == 2      \* headers per header list in the classifier runs
MaxRows == 3      \* data rows per file in the period runs
MaxMsgRows == 2   \* data rows per file in the billing runs
MaxSites == 2     \* sites in the registry
MaxSrcRows == 2   \* data rows per file in the source-identifier runs
MaxTree == 2      \* rows in the view's file table
MaxAgreeRows == 2 \* data rows per file in the filter/aggregator runs
MaxBatch == 2     \* files per batch in the line-item runs

----------------------------------------------------------------------------
(* Text primitives *)

UpperAlpha == <<"A","B","C","D","E","F","G","H","I","J","K","L","M",
                "N","O","P","Q","R","S","T","U","V","W","X","Y","Z">>
LowerAlpha == <<"a","b","c","d","e","f","g","h","i","j","k","l","m",
                "n","o","p","q","r","s","t","u","v","w","x","y","z">>
Digits10 == <<"0","1","2","3","4","5","6","7","8","9">>

\* str.lower() on one character
ToLower(c) ==
    IF \E i \in 1..26 : UpperAlpha[i] = c
    THEN LowerAlpha[CHOOSE i \in 1..26 : UpperAlpha[i] = c]
    ELSE c

\* \d
IsDigit(c) == \E i \in 1..10 : Digits10[i] = c

DigitVal(c) == (CHOOSE i \in 1..10 : Digits10[i] = c) - 1

\* \s
IsSpace(c) == c \in {" ", "\t"}

\* int() of a string of digits
RECURSIVE IntOf(_)
IntOf(s) ==
    IF s = <<>> THEN 0
    ELSE IntOf(SubSeq(s, 1, Len(s) - 1)) * 10 + DigitVal(s[Len(s)])

\* str.strip()
RECURSIVE LStrip(_)
LStrip(s) == IF s # <<>> /\ IsSpace(s[1]) THEN LStrip(Tail(s)) ELSE s
RECURSIVE RStrip(_)
RStrip(s) ==
    IF s # <<>> /\ IsSpace(s[Len(s)]) THEN RStrip(SubSeq(s, 1, Len(s) - 1)) ELSE s
Strip(s) == RStrip(LStrip(s))

\* s[-n:]
LastN(s, n) == IF Len(s) <= n THEN s ELSE SubSeq(s, Len(s) - n + 1, Len(s))

\* s.endswith(t)
EndsWith(s, t) == Len(t) <= Len(s) /\ SubSeq(s, Len(s) - Len(t) + 1, Len(s)) = t

\* all sequences over S of length at most n
SeqsUpTo(S, n) == UNION {[1..k -> S] : k \in 0..n}

----------------------------------------------------------------------------
(* Header spellings used as inputs *)

H_Duration == <<"D","u","r","a","t","i","o","n">>
H_DURATION_ == <<"D","U","R","A","T","I","O","N"," ">>
H_NumSegments == <<"N","u","m","S","e","g","m","e","n","t","s">>
H_Num_Segments == <<"N","u","m"," ","S","e","g","m","e","n","t","s">>
H_num_of_segments == <<"n","u","m","_","o","f","-","s","e","g","m","e","n","t","s">>
H_StartTime == <<"S","t","a","r","t"," ","T","i","m","e">>
H_SentDate == <<"S","e","n","t","D","a","t","e">>
H_Body == <<"B","o","d","y">>
H_From == <<"F","r","o","m">>
H_To == <<"T","o">>
H_Date == <<"D","a","t","e">>
H_Sender == <<"S","e","n","d","e","r">>
H_Called == <<"C","a","l","l","e","d">>

\* the token each spelling stands for once lowercased and stripped of
\* whitespace, underscores and dashes (written out by hand)
Canon(h) ==
    CASE h = H_Duration -> "duration"
      [] h = H_DURATION_ -> "duration"
      [] h = H_NumSegments -> "numsegments"
      [] h = H_Num_Segments -> "numsegments"
      [] h = H_num_of_segments -> "numofsegments"
      [] h = H_StartTime -> "starttime"
      [] h = H_SentDate -> "sentdate"
      [] h = H_Body -> "body"
      [] h = H_From -> "from"
      [] h = H_To -> "to"
      [] h = H_Date -> "date"
      [] h = H_Sender -> "sender"
      [] h = H_Called -> "called"
      [] OTHER -> "other"

CanonSet(hs) == {Canon(hs[i]) : i \in 1..Len(hs)}

----------------------------------------------------------------------------
(* Record Classifier: invoicing._norm, _detect_kind, sniff_csv *)

T_duration == <<"d","u","r","a","t","i","o","n">>
T_numsegments == <<"n","u","m","s","e","g","m","e","n","t","s">>
T_numofsegments == <<"n","u","m","o","f","s","e","g","m","e","n","t","s">>
T_starttime == <<"s","t","a","r","t","t","i","m","e">>
T_endtime == <<"e","n","d","t","i","m","e">>
T_callsid == <<"c","a","l","l","s","i","d">>
T_sentdate == <<"s","e","n","t","d","a","t","e">>
T_body == <<"b","o","d","y">>

NotSepChar(c) == ~(IsSpace(c) \/ c = "_" \/ c = "-")

\* re.sub(r"[\s_\-]+", "", (s or "").strip().lower())
_norm(s) == SelectSeq([i \in 1..Len(s) |-> ToLower(s[i])], NotSepChar)

\* mutants of _detect_kind
_detect_kind_duration_first(fieldnames) ==
    LET normalized == {_norm(fieldnames[i]) : i \in 1..Len(fieldnames)}
    IN  IF T_duration \in normalized THEN "calls"
        ELSE IF T_numsegments \in normalized \/ T_numofsegments \in normalized
             THEN "messages"
             ELSE "unknown"

_detect_kind_segments_first(fieldnames) ==
    LET normalized == {_norm(fieldnames[i]) : i \in 1..Len(fieldnames)}
    IN  IF T_numsegments \in normalized \/ T_numofsegments \in normalized
        THEN "messages"
        ELSE IF T_duration \in normalized THEN "calls" ELSE "unknown"

_detect_kind_broad_tokens(fieldnames) ==
    LET normalized == {_norm(fieldnames[i]) : i \in 1..Len(fieldnames)}
        has_numsegments == T_numsegments \in normalized \/ T_numofsegments \in normalized
        has_duration == T_duration \in normalized
        callish == normalized \cap {T_starttime, T_endtime, T_callsid} # {}
        msgish == normalized \cap {T_sentdate, T_body} # {}
    IN  IF has_numsegments /\ ~has_duration THEN "messages"
        ELSE IF has_duration /\ ~has_numsegments THEN "calls"
        ELSE IF has_duration \/ has_numsegments THEN "unknown"
        ELSE IF callish /\ ~msgish THEN "calls"
        ELSE IF msgish /\ ~callish THEN "messages"
        ELSE "unknown"

_detect_kind(fieldnames) ==
    IF fieldnames = <<>> THEN "unknown"
    ELSE
    LET normalized == {_norm(fieldnames[i]) : i \in 1..Len(fieldnames)}
        has_numsegments == T_numsegments \in normalized \/ T_numofsegments \in normalized
        has_duration == T_duration \in normalized
    IN  IF has_numsegments /\ ~has_duration THEN "messages"
        ELSE IF has_duration /\ ~has_numsegments THEN "calls"
        ELSE "unknown"

\* sniff_csv: the kind of the header row (the first record of the file)
sniff_csv(f) == _detect_kind(f.headers)

----------------------------------------------------------------------------
(* Null values of the state that a run does not use *)

Unset == "unset"
NoCsv == [headers |-> <<>>, rows |-> <<>>]
NoTarget == [kind |-> "unknown", year |-> 0, month |-> 0]
NoClients == [version |-> 2, clients |-> <<>>]
NoMatch == [found |-> FALSE]
NoRes == [ops |-> {}, kind |-> Unset, raw_number |-> <<>>, number |-> <<>>,
          phone |-> <<>>, match |-> NoMatch,
          check |-> [ok |-> FALSE, in |-> 0, out |-> 0, rows |-> 0],
          find |-> <<>>, calls_qty |-> 0, billed |-> <<>>, raised |-> {},
          exported |-> <<>>]

PureIdle == csv = NoCsv /\ target = NoTarget /\ res = NoRes
NoInvoice == [created |-> FALSE, year |-> 0, month |-> 0, line_items |-> <<>>,
              subtotal |-> 0, tax |-> 0, total |-> 0, client_name_snapshot |-> <<>>]
NoBox == [title |-> "", names |-> <<>>]
ViewIdle ==
    /\ disk = <<>> /\ tree = <<>> /\ year_var = <<>> /\ month_var = <<>>
    /\ inv_obj = NoInvoice /\ msgbox = NoBox

----------------------------------------------------------------------------
(* Classifier runs: every header list over the spellings, classified *)

ClassifyHeaders == {H_Duration, H_DURATION_, H_NumSegments, H_Num_Segments,
                    H_num_of_segments, H_StartTime, H_SentDate, H_Body, H_From}

InitClassify ==
    /\ csv \in {[headers |-> h, rows |-> <<>>] : h \in SeqsUpTo(ClassifyHeaders, MaxHdrs)}
    /\ target = NoTarget /\ clients_doc = NoClients
    /\ res = NoRes
    /\ ViewIdle

SniffCsv ==
    /\ res.kind = Unset
    /\ res' = [res EXCEPT !.ops = @ \cup {"sniff_csv"}, !.kind = sniff_csv(csv)]
    /\ UNCHANGED inVars
    /\ UNCHANGED viewVars

NextClassify == SniffCsv

SpecClassify == InitClassify /\ [][NextClassify]_vars

\* what the header list holds, by the hand-written tokens
HasDurationHdr == "duration" \in CanonSet(csv.headers)
HasSegmentHdr == CanonSet(csv.headers) \cap {"numsegments", "numofsegments"} # {}
HasCallToken == CanonSet(csv.headers) \cap {"starttime"} # {}
HasMsgToken == CanonSet(csv.headers) \cap {"sentdate", "body"} # {}
Classified == res.kind # Unset

\* C5: the classifier returns CALLS iff a duration header is present and no
\* segment-count header, MESSAGES iff a segment-count header is present and no
\* duration header, UNKNOWN when both or neither are present (also for the
\* empty header list); it always returns one of the three kinds.
C5_ClassifierTruthTable ==
    Classified =>
        /\ res.kind \in {"calls", "messages", "unknown"}
        /\ (res.kind = "calls" <=> (HasDurationHdr /\ ~HasSegmentHdr))
        /\ (res.kind = "messages" <=> (HasSegmentHdr /\ ~HasDurationHdr))
        /\ (res.kind = "unknown" <=> (HasDurationHdr <=> HasSegmentHdr))

C5_Witness ==
    /\ Classified /\ HasDurationHdr /\ HasSegmentHdr /\ res.kind = "unknown"

\* C6 as claimed: every header list with a duration header is CALLS, whether
\* or not a segment-count header is also present.
C6_DurationPrecedence == (Classified /\ HasDurationHdr) => res.kind = "calls"

\* C6 amended: a duration header gives CALLS only when no segment-count
\* header is present; with both present the result is UNKNOWN, and a
\* segment-count header gives MESSAGES only when no duration header is present.
C6_NoPrecedence ==
    Classified =>
        /\ HasDurationHdr => res.kind = (IF HasSegmentHdr THEN "unknown" ELSE "calls")
        /\ HasSegmentHdr => res.kind = (IF HasDurationHdr THEN "unknown" ELSE "messages")

C6_Witness ==
    /\ Classified /\ HasDurationHdr /\ HasSegmentHdr
    /\ Len(csv.headers) = 2 /\ csv.headers[1] = H_DURATION_ /\ res.kind = "unknown"

\* C7 as claimed: with neither a duration nor a segment-count header, the
\* broader token sets decide: CALLS for a call-indicator token and no
\* message-indicator token, MESSAGES in the symmetric case.
C7_BroadTokenFallback ==
    (Classified /\ ~HasDurationHdr /\ ~HasSegmentHdr) =>
        /\ (HasCallToken /\ ~HasMsgToken) => res.kind = "calls"
        /\ (HasMsgToken /\ ~HasCallToken) => res.kind = "messages"
        /\ (HasCallToken <=> HasMsgToken) => res.kind = "unknown"

\* C7 amended: with neither a duration nor a segment-count header the
\* classifier returns UNKNOWN, whatever other headers (start time, sent date,
\* body, ...) are present; there is no fallback to broader token sets.
C7_NeitherIsUnknown ==
    (Classified /\ ~HasDurationHdr /\ ~HasSegmentHdr) => res.kind = "unknown"

C7_Witness ==
    /\ Classified /\ ~HasDurationHdr /\ ~HasSegmentHdr
    /\ HasCallToken /\ ~HasMsgToken /\ res.kind = "unknown"

----------------------------------------------------------------------------
(* Source Identifier Extractor: invoicing._clean_phone, identify_source *)

T_from == <<"f","r","o","m">>
T_sender == <<"s","e","n","d","e","r">>
T_source == <<"s","o","u","r","c","e">>
T_callerid == <<"c","a","l","l","e","r","i","d">>
T_caller == <<"c","a","l","l","e","r">>
T_to == <<"t","o">>
T_called == <<"c","a","l","l","e","d">>

\* re.sub(r"\D+", "", s)
_digits_only(s) == SelectSeq(s, IsDigit)

\* digits with an optional leading "+"
_clean_phone(raw) ==
    IF raw = <<>> THEN <<>>
    ELSE LET r == Strip(raw)
             lead_plus == r # <<>> /\ r[1] = "+"
         IN  (IF lead_plus THEN <<"+">> ELSE <<>>) \o _digits_only(r)

\* index of the first header whose normal form is in names, 0 if none
FirstHeaderIn(headers, names) ==
    IF \E i \in 1..Len(headers) : _norm(headers[i]) \in names
    THEN CHOOSE i \in 1..Len(headers) :
            /\ _norm(headers[i]) \in names
            /\ \A j \in 1..(i - 1) : _norm(headers[j]) \notin names
    ELSE 0

\* the stripped value of the first row whose cell in column idx is not blank
FirstValueIn(rows, idx) ==
    LET Has(r) == idx <= Len(rows[r]) /\ Strip(rows[r][idx]) # <<>>
    IN  IF idx # 0 /\ \E r \in 1..Len(rows) : Has(r)
        THEN Strip(rows[CHOOSE r \in 1..Len(rows) :
                            Has(r) /\ \A q \in 1..(r - 1) : ~Has(q)][idx])
        ELSE <<>>

\* mutant: the column is chosen by the kind, to/called first for calls
identify_source_by_kind(f) ==
    LET kind == sniff_csv(f)
        to_index == FirstHeaderIn(f.headers, {T_to, T_called})
        from_index == FirstHeaderIn(f.headers, {T_from, T_sender, T_caller})
        header_index == IF kind = "calls" /\ to_index # 0 THEN to_index ELSE from_index
        raw_number == FirstValueIn(f.rows, header_index)
    IN  [kind |-> kind, raw_number |-> raw_number, number |-> _clean_phone(raw_number)]

identify_source(f) ==
    LET kind == sniff_csv(f)
        candidate_names == {T_from, T_sender, T_source, T_callerid, T_caller}
        header_index == FirstHeaderIn(f.headers, candidate_names)
        raw_number == FirstValueIn(f.rows, header_index)
    IN  [kind |-> kind, raw_number |-> raw_number, number |-> _clean_phone(raw_number)]

(* Source-identifier runs *)

C_Empty == <<>>
C_Blank == <<" ">>
PhoneA == <<"+","1","5","-","5","3","0","9">>
PhoneB == <<" ","8","6","7","0","0","0","0">>
SourceCells == {C_Empty, C_Blank, PhoneA, PhoneB}

\* the identifier each cell stands for (written out by hand)
NormalOf(c) ==
    CASE c = PhoneA -> <<"+","1","5","5","3","0","9">>
      [] c = PhoneB -> <<"8","6","7","0","0","0","0">>
      [] OTHER -> <<>>

SourceLayouts == {<<H_To, H_From, H_Duration>>, <<H_From, H_To, H_Duration>>,
                  <<H_Called, H_Sender, H_Duration>>, <<H_To, H_Duration>>,
                  <<H_To, H_From, H_NumSegments>>, <<H_Body, H_Sender, H_NumSegments>>,
                  <<H_Body, H_NumSegments>>}
SourceRows == {<<a, b>> : a \in SourceCells, b \in SourceCells}
                  \cup {<<a>> : a \in SourceCells}

InitSource ==
    /\ csv \in {[headers |-> h, rows |-> r] :
                    h \in SourceLayouts, r \in SeqsUpTo(SourceRows, MaxSrcRows)}
    /\ target = NoTarget /\ clients_doc = NoClients
    /\ res = NoRes
    /\ ViewIdle

IdentifySource ==
    /\ "identify_source" \notin res.ops
    /\ LET src == identify_source(csv)
       IN  res' = [res EXCEPT !.ops = @ \cup {"identify_source"},
                              !.kind = src.kind,
                              !.raw_number = src.raw_number,
                              !.number = src.number]
    /\ UNCHANGED inVars
    /\ UNCHANGED viewVars

NextSource == IdentifySource

SpecSource == InitSource /\ [][NextSource]_vars

\* columns and values by the hand-written tokens
ColOf(tokens) ==
    IF \E i \in 1..Len(csv.headers) : Canon(csv.headers[i]) \in tokens
    THEN CHOOSE i \in 1..Len(csv.headers) :
            /\ Canon(csv.headers[i]) \in tokens
            /\ \A j \in 1..(i - 1) : Canon(csv.headers[j]) \notin tokens
    ELSE 0
ColHasValue(col, r) ==
    col # 0 /\ col <= Len(csv.rows[r]) /\ csv.rows[r][col] \in {PhoneA, PhoneB}
IdentifierIn(col) ==
    IF \E r \in 1..Len(csv.rows) : ColHasValue(col, r)
    THEN NormalOf(csv.rows[CHOOSE r \in 1..Len(csv.rows) :
            ColHasValue(col, r) /\ \A q \in 1..(r - 1) : ~ColHasValue(col, q)][col])
    ELSE <<>>
Identified == "identify_source" \in res.ops
ToCol == ColOf({"to", "called"})
FromCol == ColOf({"from", "caller", "sender"})

\* C9 as claimed: the column is chosen by the kind: to/called for a CALLS file
\* that has both columns, from/caller/sender for a MESSAGES file.
C9_ColumnByKind ==
    Identified =>
        /\ (res.kind = "calls" /\ ToCol # 0 /\ FromCol # 0) => res.number = IdentifierIn(ToCol)
        /\ res.kind = "messages" => res.number = IdentifierIn(FromCol)

\* C9 amended: whatever the kind, the identifier is the first non-blank value
\* of the first column whose header normalizes to from, sender, source,
\* callerid or caller (a to/called column is never read, also for a CALLS
\* file that has both); it is the empty string when there is no such column
\* or no non-blank value in it.
C9_FromColumnOnly ==
    Identified =>
        res.number = IdentifierIn(ColOf({"from", "sender", "source", "callerid", "caller"}))

C9_Witness ==
    /\ Identified /\ res.kind = "calls" /\ ToCol # 0 /\ FromCol # 0
    /\ IdentifierIn(ToCol) # <<>> /\ IdentifierIn(FromCol) # <<>>
    /\ IdentifierIn(ToCol) # IdentifierIn(FromCol)
    /\ res.number = IdentifierIn(FromCol)

----------------------------------------------------------------------------
(* Organization Matcher: invoicing._match_site_by_last4, identify_csv_and_phone *)

\* the sites of the registry in client -> division -> site traversal order
RECURSIVE SitesOfDivisions(_, _)
SitesOfDivisions(client_name, divs) ==
    IF divs = <<>> THEN <<>>
    ELSE [i \in 1..Len(divs[1].sites) |->
             [client_name |-> client_name, division_name |-> divs[1].name,
              site_name |-> divs[1].sites[i].name, phone |-> divs[1].sites[i].phone]]
         \o SitesOfDivisions(client_name, Tail(divs))
\* c.get("divisions", []) or []
DivisionsOf(c) == IF "divisions" \in DOMAIN c THEN c.divisions ELSE <<>>

RECURSIVE SitesOfClients(_)
SitesOfClients(cs) ==
    IF cs = <<>> THEN <<>>
    ELSE SitesOfDivisions(cs[1].name, DivisionsOf(cs[1])) \o SitesOfClients(Tail(cs))

MatchOf(s, last4) ==
    [found |-> TRUE, client_name |-> s.client_name, division_name |-> s.division_name,
     site_name |-> s.site_name, site_phone |-> _digits_only(s.phone),
     matched_last4 |-> last4]

\* mutant: both sides must have four digits
_match_site_by_last4_four_digits(doc, digits) ==
    IF Len(digits) < 4 THEN NoMatch
    ELSE
    LET last4 == LastN(digits, 4)
        sites == SitesOfClients(doc.clients)
        Hit(i) == EndsWith(_digits_only(sites[i].phone), last4)
    IN  IF \E i \in 1..Len(sites) : Hit(i)
        THEN MatchOf(sites[CHOOSE i \in 1..Len(sites) :
                               Hit(i) /\ \A j \in 1..(i - 1) : ~Hit(j)], last4)
        ELSE NoMatch

\* mutant: the last matching site wins
_match_site_by_last4_last_site(doc, digits) ==
    IF digits = <<>> THEN NoMatch
    ELSE
    LET last4 == LastN(digits, 4)
        sites == SitesOfClients(doc.clients)
        Hit(i) == EndsWith(_digits_only(sites[i].phone), last4)
    IN  IF \E i \in 1..Len(sites) : Hit(i)
        THEN MatchOf(sites[CHOOSE i \in 1..Len(sites) :
                               Hit(i) /\ \A j \in (i + 1)..Len(sites) : ~Hit(j)], last4)
        ELSE NoMatch

_match_site_by_last4(doc, digits) ==
    IF digits = <<>> THEN NoMatch
    ELSE
    LET last4 == LastN(digits, 4)
        sites == SitesOfClients(doc.clients)
        Hit(i) == EndsWith(_digits_only(sites[i].phone), last4)
    IN  IF \E i \in 1..Len(sites) : Hit(i)
        THEN MatchOf(sites[CHOOSE i \in 1..Len(sites) :
                               Hit(i) /\ \A j \in 1..(i - 1) : ~Hit(j)], last4)
        ELSE NoMatch

identify_csv_and_phone(f, doc) ==
    LET base == identify_source(f)
        digits == _digits_only(IF base.number # <<>> THEN base.number ELSE base.raw_number)
    IN  [kind |-> base.kind, phone |-> digits,
         match |-> _match_site_by_last4(doc, digits)]

(* Matcher runs: a registry of up to MaxSites sites and one file *)

SP_5309 == <<"5","5","5","-","8","6","7","-","5","3","0","9">>
SP_0000 == <<"5","5","5","-","8","6","7","-","0","0","0","0">>
SP_x09 == <<"x","0","9">>
SP_none == <<>>
SitePhones == {SP_5309, SP_0000, SP_x09, SP_none}

ID_8675309 == <<"8","6","7","5","3","0","9">>
ID_plus0000 == <<"+","1"," ","8","6","7","-","0","0","0","0">>
ID_09 == <<"0","9">>
ID_1234 == <<"1","2","3","4">>
ID_none == <<>>
Identifiers == {ID_8675309, ID_plus0000, ID_09, ID_1234, ID_none}

\* the four trailing digits of each phone text, <<>> when it has fewer than
\* four digits (written out by hand)
TrailingFour(p) ==
    CASE p = SP_5309 -> <<"5","3","0","9">>
      [] p = SP_0000 -> <<"0","0","0","0">>
      [] p = ID_8675309 -> <<"5","3","0","9">>
      [] p = ID_plus0000 -> <<"0","0","0","0">>
      [] p = ID_1234 -> <<"1","2","3","4">>
      [] OTHER -> <<>>

SiteList(phones) == [i \in 1..Len(phones) |-> [name |-> <<"Site", i>>, phone |-> phones[i]]]

\* all sites in one division of one client
RegistryOneClient(phones) ==
    [version |-> 2,
     clients |-> << [name |-> <<"Client", 1>>,
                     divisions |-> << [name |-> <<"Division", 1>>,
                                       sites |-> SiteList(phones)] >>] >>]

\* one client per site, after a client that has an empty division
RegistryClientPerSite(phones) ==
    [version |-> 2,
     clients |-> << [name |-> <<"Client", 0>>,
                     divisions |-> << [name |-> <<"Division", 0>>, sites |-> <<>>] >>] >>
                 \o [i \in 1..Len(phones) |->
                        [name |-> <<"Client", i>>,
                         divisions |-> << [name |-> <<"Division", i>>,
                                           sites |-> << SiteList(phones)[i] >>] >>]]]

Registries ==
    {RegistryOneClient(p) : p \in SeqsUpTo(SitePhones, MaxSites)}
        \cup {RegistryClientPerSite(p) : p \in SeqsUpTo(SitePhones, MaxSites)}

InitMatch ==
    /\ csv \in {[headers |-> <<H_From, H_Duration>>, rows |-> << <<id>> >>] :
                    id \in Identifiers}
    /\ clients_doc \in Registries
    /\ target = NoTarget
    /\ res = NoRes
    /\ ViewIdle

IdentifyCsvAndPhone ==
    /\ "identify_csv_and_phone" \notin res.ops
    /\ LET info == identify_csv_and_phone(csv, clients_doc)
       IN  res' = [res EXCEPT !.ops = @ \cup {"identify_csv_and_phone"},
                              !.kind = info.kind,
                              !.phone = info.phone,
                              !.match = info.match]
    /\ UNCHANGED inVars
    /\ UNCHANGED viewVars

NextMatch == IdentifyCsvAndPhone

SpecMatch == InitMatch /\ [][NextMatch]_vars

Matched == "identify_csv_and_phone" \in res.ops
TheIdentifier == csv.rows[1][1]
RegistrySites == SitesOfClients(clients_doc.clients)
\* site i and the identifier have four trailing digits each, and the same ones
SameLastFour(i) ==
    /\ TrailingFour(TheIdentifier) # <<>>
    /\ TrailingFour(RegistrySites[i].phone) = TrailingFour(TheIdentifier)

\* C8: the matcher returns a site only if that site's phone and the
\* identifier each have four trailing digits and these are equal, and it
\* returns absent when no site satisfies this (also for an empty identifier).
C8_MatchOnlyOnFourDigits ==
    Matched =>
        /\ res.match.found =>
              \E i \in 1..Len(RegistrySites) :
                  /\ SameLastFour(i)
                  /\ res.match.site_name = RegistrySites[i].site_name
                  /\ res.match.client_name = RegistrySites[i].client_name
        /\ (~\E i \in 1..Len(RegistrySites) : SameLastFour(i)) => ~res.match.found

----------------------------------------------------------------------------
(* Period Filter & Validator: invoicing._ym_from_any_date,                 *)
(* check_csv_month_year, _date_col_index, _ym_from_cell,                   *)
(* find_out_of_month_rows; calls counting: count_rows_calls_csv            *)

T_start == <<"s","t","a","r","t">>
T_calldate == <<"c","a","l","l","d","a","t","e">>
T_date == <<"d","a","t","e">>
T_timestamp == <<"t","i","m","e","s","t","a","m","p">>
T_messagedate == <<"m","e","s","s","a","g","e","d","a","t","e">>
T_senddate == <<"s","e","n","d","d","a","t","e">>

NoneYM == <<-1, -1>>     \* (None, None)
NoneInt == -1            \* None passed for an integer parameter

\* (\d{4})-(\d{2})-(\d{2}) matches at position i
IsoDateAt(s, i) ==
    /\ i + 9 <= Len(s)
    /\ \A k \in {0, 1, 2, 3, 5, 6, 8, 9} : IsDigit(s[i + k])
    /\ s[i + 4] = "-" /\ s[i + 7] = "-"

\* re.search: position of the leftmost match, 0 if none
IsoDateSearch(s) ==
    IF \E i \in 1..Len(s) : IsoDateAt(s, i)
    THEN CHOOSE i \in 1..Len(s) : IsoDateAt(s, i) /\ \A j \in 1..(i - 1) : ~IsoDateAt(s, j)
    ELSE 0

_ym_from_any_date(s) ==
    IF s = <<>> THEN NoneYM
    ELSE LET i == IsoDateSearch(s)
         IN  IF i = 0 THEN NoneYM
             ELSE <<IntOf(SubSeq(s, i, i + 3)), IntOf(SubSeq(s, i + 5, i + 6))>>

_ym_from_cell(cell) ==
    IF cell = <<>> THEN NoneYM
    ELSE LET i == IsoDateSearch(cell)
         IN  IF i = 0 THEN NoneYM
             ELSE <<IntOf(SubSeq(cell, i, i + 3)), IntOf(SubSeq(cell, i + 5, i + 6))>>

\* row[idx] if idx < len(row) else ""
CellOr(row, idx) == IF idx <= Len(row) THEN row[idx] ELSE <<>>

\* mutant: the candidate headers of _date_col_index
check_csv_month_year_narrow(f, kind, year, month) ==
    LET candidates == IF kind = "messages" THEN {T_sentdate}
                      ELSE IF kind = "calls" THEN {T_starttime}
                      ELSE {}
        idx == FirstHeaderIn(f.headers, candidates)
        InRow(r) == _ym_from_any_date(CellOr(f.rows[r], idx)) = <<year, month>>
        n_total == Len(f.rows)
        n_in == Cardinality({r \in 1..Len(f.rows) : InRow(r)})
        n_out == n_total - n_in
    IN  IF kind \notin {"messages", "calls"} \/ idx = 0
        THEN [ok |-> FALSE, in |-> 0, out |-> 0, rows |-> 0]
        ELSE [ok |-> (n_out = 0 /\ n_total > 0), in |-> n_in, out |-> n_out, rows |-> n_total]

check_csv_month_year(f, kind, year, month) ==
    LET candidates == IF kind = "messages" THEN {T_sentdate, T_date, T_timestamp}
                      ELSE IF kind = "calls" THEN {T_starttime, T_start, T_calldate}
                      ELSE {}
        idx == FirstHeaderIn(f.headers, candidates)
        InRow(r) == _ym_from_any_date(CellOr(f.rows[r], idx)) = <<year, month>>
        n_total == Len(f.rows)
        n_in == Cardinality({r \in 1..Len(f.rows) : InRow(r)})
        n_out == n_total - n_in
    IN  IF kind \notin {"messages", "calls"} \/ idx = 0
        THEN [ok |-> FALSE, in |-> 0, out |-> 0, rows |-> 0]
        ELSE [ok |-> (n_out = 0 /\ n_total > 0), in |-> n_in, out |-> n_out, rows |-> n_total]

_date_col_index(headers, kind) ==
    LET targets == IF kind = "messages" THEN {T_sentdate}
                   ELSE IF kind = "calls" THEN {T_starttime}
                   ELSE {}
    IN  FirstHeaderIn(headers, targets)

DateColumnMissing == <<"date-column-missing">>

\* the (row_number, cell) pairs of rows lo.. of the file that are out of range
RECURSIVE OutRowsFrom(_, _, _, _, _)
OutRowsFrom(rows, lo, ci, year, month) ==
    IF lo > Len(rows) THEN <<>>
    ELSE LET cell == CellOr(rows[lo], ci)
             ym == _ym_from_cell(cell)
             bad == ym = NoneYM \/ ym[1] # year \/ ym[2] # month
         IN  (IF bad THEN << <<lo + 1, cell>> >> ELSE <<>>)
                 \o OutRowsFrom(rows, lo + 1, ci, year, month)

\* mutant: without a date column nothing is reported
find_out_of_month_rows_silent(f, kind, year, month) ==
    LET ci == _date_col_index(f.headers, kind)
    IN  IF ci = 0 THEN <<>>
        ELSE OutRowsFrom(f.rows, 1, ci, year, month)

find_out_of_month_rows(f, kind, year, month) ==
    LET ci == _date_col_index(f.headers, kind)
    IN  IF ci = 0
        THEN [r \in 1..Len(f.rows) |-> <<r + 1, DateColumnMissing>>]
        ELSE OutRowsFrom(f.rows, 1, ci, year, month)

\* the number of rows lo.. of the file whose date cell is in (fy, fm)
RECURSIVE CountInFrom(_, _, _, _, _)
CountInFrom(rows, lo, ci, fy, fm) ==
    IF lo > Len(rows) THEN 0
    ELSE (IF _ym_from_cell(CellOr(rows[lo], ci)) = <<fy, fm>> THEN 1 ELSE 0)
             + CountInFrom(rows, lo + 1, ci, fy, fm)

\* mutant: the filter is not applied
count_rows_calls_csv_unfiltered(f, filter_year, filter_month) == Len(f.rows)

\* mutant: rows without a parsable date are counted too
count_rows_calls_csv_lenient(f, filter_year, filter_month) ==
    LET ci == _date_col_index(f.headers, "calls")
    IN  IF ci = 0 THEN 0
        ELSE Cardinality({r \in 1..Len(f.rows) :
                 _ym_from_cell(CellOr(f.rows[r], ci)) \in {NoneYM, <<filter_year, filter_month>>}})

count_rows_calls_csv(f, filter_year, filter_month) ==
    IF filter_year = NoneInt \/ filter_month = NoneInt THEN Len(f.rows)
    ELSE LET ci == _date_col_index(f.headers, "calls")
         IN  IF ci = 0 THEN 0
             ELSE CountInFrom(f.rows, 1, ci, filter_year, filter_month)

(* Period runs: a file of up to MaxRows rows of one date cell each *)

D_in_iso == <<"2","0","2","5","-","0","5","-","3","1","T","2","0",":","2","6">>
D_in_emb == <<"1","3",":","0","0"," ","P","D","T"," ","2","0","2","5","-","0","5","-","0","1">>
D_out_iso == <<"2","0","2","5","-","0","6","-","0","1">>
D_us_in == <<"5","/","3","1","/","2","0","2","5">>
D_junk == <<"n","/","a">>
DateCells == {D_in_iso, D_in_emb, D_out_iso, D_us_in, D_junk, C_Empty}

\* the year and month of the YYYY-MM-DD date written in each cell, NoneYM
\* when the cell holds none (written out by hand)
IsoYM(cell) ==
    CASE cell = D_in_iso -> <<2025, 5>>
      [] cell = D_in_emb -> <<2025, 5>>
      [] cell = D_out_iso -> <<2025, 6>>
      [] OTHER -> NoneYM

PeriodLayouts == {<<H_StartTime, H_Duration>>, <<H_SentDate, H_NumSegments>>,
                  <<H_Date, H_NumSegments>>, <<H_Duration>>, <<H_Body, H_SentDate>>}
PeriodRows == {<<c>> : c \in DateCells} \cup {<<>>}
Periods == {<<2025, 5>>, <<2025, 6>>}

InitPeriod ==
    /\ csv \in {[headers |-> h, rows |-> r] :
                    h \in PeriodLayouts, r \in SeqsUpTo(PeriodRows, MaxRows)}
    /\ target \in {[kind |-> k, year |-> p[1], month |-> p[2]] :
                    k \in {"calls", "messages", "unknown"}, p \in Periods}
    /\ clients_doc = NoClients
    /\ res = NoRes
    /\ ViewIdle

CheckCsvMonthYear ==
    /\ "check_csv_month_year" \notin res.ops
    /\ res' = [res EXCEPT !.ops = @ \cup {"check_csv_month_year"},
                          !.check = check_csv_month_year(csv, target.kind,
                                                         target.year, target.month)]
    /\ UNCHANGED inVars
    /\ UNCHANGED viewVars

FindOutOfMonthRows ==
    /\ "find_out_of_month_rows" \notin res.ops
    /\ res' = [res EXCEPT !.ops = @ \cup {"find_out_of_month_rows"},
                          !.find = find_out_of_month_rows(csv, target.kind,
                                                          target.year, target.month)]
    /\ UNCHANGED inVars
    /\ UNCHANGED viewVars

\* test.main: the per-file call count of a calls file
CountRowsCallsCsv ==
    /\ "count_rows_calls_csv" \notin res.ops
    /\ target.kind = "calls"
    /\ res' = [res EXCEPT !.ops = @ \cup {"count_rows_calls_csv"},
                          !.calls_qty = count_rows_calls_csv(csv, target.year, target.month)]
    /\ UNCHANGED inVars
    /\ UNCHANGED viewVars

NextPeriod == CheckCsvMonthYear \/ FindOutOfMonthRows \/ CountRowsCallsCsv

SpecPeriod == InitPeriod /\ [][NextPeriod]_vars

\* the date column of the file for a kind, and the rows in the target period
\* (a row without a YYYY-MM-DD date in that column is out of period)
DateColOf(kind) ==
    IF kind = "calls" THEN ColOf({"starttime", "start", "calldate"})
    ELSE IF kind = "messages" THEN ColOf({"sentdate", "date", "timestamp"})
    ELSE 0
InPeriodRows(col) ==
    {r \in 1..Len(csv.rows) :
        /\ col # 0 /\ col <= Len(csv.rows[r])
        /\ IsoYM(csv.rows[r][col]) = <<target.year, target.month>>}
OutOfPeriodRows(col) == (1..Len(csv.rows)) \ InPeriodRows(col)

C10_FilterRoundTrip ==
    ({"check_csv_month_year", "find_out_of_month_rows"} \subseteq res.ops) =>
        LET col == DateColOf(target.kind)
            N == Cardinality(InPeriodRows(col))
            M == Cardinality(OutOfPeriodRows(col))
        IN  /\ Len(res.find) = M
            /\ {res.find[i][1] : i \in 1..Len(res.find)} = {r + 1 : r \in OutOfPeriodRows(col)}
            /\ res.check.in = N /\ res.check.out = M /\ res.check.rows = N + M

----------------------------------------------------------------------------
(* Billing Aggregator for messages: invoicing._extract_row_datetime,       *)
(* _ceil_div2, _extract_num_segments, _sum_billed_units_by_site            *)

NoneCell == <<"<None>">>    \* None as the value of a DictReader field

\* csv.DictReader: the value of field key in a row (the last column of that
\* name; None when the row is too short to reach it)
DictHas(headers, key) == \E i \in 1..Len(headers) : headers[i] = key
DictGet(headers, row, key) ==
    LET i == CHOOSE k \in 1..Len(headers) :
                 headers[k] = key /\ \A j \in (k + 1)..Len(headers) : headers[j] # key
    IN  IF i <= Len(row) THEN row[i] ELSE NoneCell

\* csv.DictReader: the fields of a row in key order (first occurrences)
DictKeys(headers) ==
    SelectSeq([i \in 1..Len(headers) |-> i], LAMBDA i : \A j \in 1..(i - 1) : headers[j] # headers[i])

IsLeap(y) == (y % 4 = 0 /\ y % 100 # 0) \/ y % 400 = 0
DaysIn(y, mo) ==
    IF mo = 2 THEN (IF IsLeap(y) THEN 29 ELSE 28)
    ELSE IF mo \in {4, 6, 9, 11} THEN 30 ELSE 31
\* datetime(y, mo, d) does not raise
ValidDate(y, mo, d) == y \in 1..9999 /\ mo \in 1..12 /\ d >= 1 /\ d <= DaysIn(y, mo)

AllDigits(s, lo, hi) == hi <= Len(s) /\ \A k \in lo..hi : IsDigit(s[k])

\* hh:mm or hh:mm:ss from position p to the end, optionally followed by +hh:mm
IsoTimeFrom(s, p) ==
    LET HM == AllDigits(s, p, p + 1) /\ p + 4 <= Len(s) /\ s[p + 2] = ":"
              /\ AllDigits(s, p + 3, p + 4)
              /\ IntOf(SubSeq(s, p, p + 1)) <= 23 /\ IntOf(SubSeq(s, p + 3, p + 4)) <= 59
        q == IF HM /\ p + 7 <= Len(s) /\ s[p + 5] = ":" /\ AllDigits(s, p + 6, p + 7)
                  /\ IntOf(SubSeq(s, p + 6, p + 7)) <= 59
             THEN p + 8 ELSE p + 5
        Offset == /\ q + 5 = Len(s) /\ s[q] \in {"+", "-"}
                  /\ AllDigits(s, q + 1, q + 2) /\ s[q + 3] = ":" /\ AllDigits(s, q + 4, q + 5)
                  /\ IntOf(SubSeq(s, q + 1, q + 2)) <= 23 /\ IntOf(SubSeq(s, q + 4, q + 5)) <= 59
    IN  HM /\ (q = Len(s) + 1 \/ Offset)

\* datetime.fromisoformat on YYYY-MM-DD, optionally followed by a separator
\* and a time: <<year, month>> or NoneYM when it raises
FromIsoFormat(s) ==
    IF /\ IsoDateAt(s, 1)
       /\ ValidDate(IntOf(SubSeq(s, 1, 4)), IntOf(SubSeq(s, 6, 7)), IntOf(SubSeq(s, 9, 10)))
       /\ (Len(s) = 10 \/ (Len(s) > 11 /\ IsoTimeFrom(s, 12)))
    THEN <<IntOf(SubSeq(s, 1, 4)), IntOf(SubSeq(s, 6, 7))>>
    ELSE NoneYM

\* number of digits at positions p.. of s, at most max
RECURSIVE DigitRun(_, _, _)
DigitRun(s, p, max) ==
    IF max = 0 \/ p > Len(s) \/ ~IsDigit(s[p]) THEN 0 ELSE 1 + DigitRun(s, p + 1, max - 1)

\* (\d{1,2})/(\d{1,2})/(\d{2,4}) at position i: <<mo, d, y>>, or <<>> if no match
USDateAt(s, i) ==
    LET a == DigitRun(s, i, 2)
        p == i + a + 1
        b == DigitRun(s, p, 2)
        q == p + b + 1
        c == DigitRun(s, q, 4)
    IN  IF /\ a >= 1 /\ i + a <= Len(s) /\ s[i + a] = "/"
           /\ b >= 1 /\ p + b <= Len(s) /\ s[p + b] = "/"
           /\ c >= 2
        THEN <<IntOf(SubSeq(s, i, i + a - 1)), IntOf(SubSeq(s, p, p + b - 1)),
               IntOf(SubSeq(s, q, q + c - 1))>>
        ELSE <<>>

USDateSearch(s) ==
    IF \E i \in 1..Len(s) : USDateAt(s, i) # <<>>
    THEN USDateAt(s, CHOOSE i \in 1..Len(s) :
                        USDateAt(s, i) # <<>> /\ \A j \in 1..(i - 1) : USDateAt(s, j) = <<>>)
    ELSE <<>>

\* the stripped value of the first field of the row whose header is a wanted
\* date column and whose value is not empty, <<>> when there is none
RowDateValue(headers, row, kind) ==
    LET wanted == IF kind = "calls" THEN {T_starttime, T_start, T_calldate}
                  ELSE {T_sentdate, T_date, T_messagedate, T_senddate, T_timestamp}
        keys == DictKeys(headers)
        Usable(k) == /\ _norm(headers[keys[k]]) \in wanted
                     /\ DictGet(headers, row, headers[keys[k]]) \notin {NoneCell, <<>>}
    IN  IF \E k \in 1..Len(keys) : Usable(k)
        THEN Strip(DictGet(headers, row,
                 headers[keys[CHOOSE k \in 1..Len(keys) :
                     Usable(k) /\ \A j \in 1..(k - 1) : ~Usable(j)]]))
        ELSE <<>>

\* datetime(y, mo, d) of the YYYY-MM-DD found at position i (0: not found)
YMOfIsoAt(val, i) ==
    IF i # 0 /\ ValidDate(IntOf(SubSeq(val, i, i + 3)), IntOf(SubSeq(val, i + 5, i + 6)),
                          IntOf(SubSeq(val, i + 8, i + 9)))
    THEN <<IntOf(SubSeq(val, i, i + 3)), IntOf(SubSeq(val, i + 5, i + 6))>>
    ELSE NoneYM

\* datetime(yy, mo, dd) of the US date <<mo, dd, yy>> (<<>>: not found); a
\* year below 100 is taken in the 2000s
YMOfUS(us) ==
    IF us = <<>> THEN NoneYM
    ELSE LET yy == IF us[3] < 100 THEN us[3] + 2000 ELSE us[3]
         IN  IF ValidDate(yy, us[1], us[2]) THEN <<yy, us[1]>> ELSE NoneYM

\* the first of the three parses that succeeds
FirstParsed(a, b, c) == IF a # NoneYM THEN a ELSE IF b # NoneYM THEN b ELSE c

\* the year and month of the datetime parsed from the row, NoneYM for None
_extract_row_datetime(headers, row, kind) ==
    LET Parsed(val) ==
            IF val = <<>> THEN NoneYM
            ELSE FirstParsed(FromIsoFormat(val),
                             YMOfIsoAt(val, IsoDateSearch(val)),
                             YMOfUS(USDateSearch(val)))
    IN  Parsed(RowDateValue(headers, row, kind))

\* mutants of _ceil_div2
_ceil_div2_default_one(n) == IF n <= 0 THEN 1 ELSE (n + 1) \div 2
_ceil_div2_floor(n) == IF n <= 0 THEN 0 ELSE n \div 2

_ceil_div2(n) == IF n <= 0 THEN 0 ELSE (n + 1) \div 2

\* int(float(s)) for an optional sign, digits and an optional fraction:
\* [ok |-> FALSE] when it raises
IntOfFloat(s) ==
    LET t == Strip(s)
        signed == t # <<>> /\ t[1] \in {"+", "-"}
        u == IF signed THEN Tail(t) ELSE t
        n == DigitRun(u, 1, Len(u))
        frac == n < Len(u) /\ u[n + 1] = "." /\ AllDigits(u, n + 2, Len(u))
        v == IntOf(SubSeq(u, 1, n))
    IN  IF n >= 1 /\ (n = Len(u) \/ frac)
        THEN [ok |-> TRUE, val |-> IF signed /\ t[1] = "-" THEN 0 - v ELSE v]
        ELSE [ok |-> FALSE, val |-> 0]

SegmentKeys == << <<"N","u","m","S","e","g","m","e","n","t","s">>,
                  <<"N","u","m","s","e","g","m","e","n","t","s">>,
                  <<"n","u","m","s","e","g","m","e","n","t","s">>,
                  <<"N","u","m","_","S","e","g","m","e","n","t","s">>,
                  <<"N","u","m","S","e","g">>,
                  <<"N","u","m","s","e","g">>,
                  <<"S","e","g","m","e","n","t","s">>,
                  <<"s","e","g","m","e","n","t","s">> >>

_extract_num_segments(headers, row) ==
    LET Reads(k) == /\ DictHas(headers, SegmentKeys[k])
                    /\ DictGet(headers, row, SegmentKeys[k]) \notin {NoneCell, <<>>, <<"-">>}
                    /\ IntOfFloat(DictGet(headers, row, SegmentKeys[k])).ok
    IN  IF \E k \in 1..Len(SegmentKeys) : Reads(k)
        THEN IntOfFloat(DictGet(headers, row,
                 SegmentKeys[CHOOSE k \in 1..Len(SegmentKeys) :
                     Reads(k) /\ \A j \in 1..(k - 1) : ~Reads(j)])).val
        ELSE 1

\* a path that cannot be opened: open() raises
Unreadable == [error |-> "FileNotFoundError"]
OpenRaises(f) == "error" \in DOMAIN f

\* Path(path).name and Path(path).stem
PathName(path) ==
    IF \E i \in 1..Len(path) : path[i] = "/"
    THEN SubSeq(path, (CHOOSE i \in 1..Len(path) :
                          path[i] = "/" /\ \A j \in (i + 1)..Len(path) : path[j] # "/") + 1,
                Len(path))
    ELSE path
PathStem(path) ==
    LET name == PathName(path)
    IN  IF \E i \in 2..Len(name) : name[i] = "."
        THEN SubSeq(name, 1, (CHOOSE i \in 2..Len(name) :
                                 name[i] = "." /\ \A j \in (i + 1)..Len(name) : name[j] # ".") - 1)
        ELSE name

\* totals[site] += v on a dict
DictAdd(totals, site, v) ==
    IF site \in DOMAIN totals THEN [totals EXCEPT ![site] = @ + v]
    ELSE totals @@ (site :> v)

\* the rows lo.. of one file added to totals (blank lines are skipped by
\* DictReader)
RECURSIVE BillRowsFrom(_, _, _, _, _, _)
BillRowsFrom(totals, f, lo, site, year, month) ==
    IF lo > Len(f.rows) THEN totals
    ELSE LET row == f.rows[lo]
             Outside(dt) == dt = NoneYM \/ dt[1] # year \/ dt[2] # month
         IN  IF row = <<>> \/ Outside(_extract_row_datetime(f.headers, row, "messages"))
             THEN BillRowsFrom(totals, f, lo + 1, site, year, month)
             ELSE BillRowsFrom(
                      DictAdd(totals, site, _ceil_div2(_extract_num_segments(f.headers, row))),
                      f, lo + 1, site, year, month)

RECURSIVE BillFilesFrom(_, _, _, _, _)
BillFilesFrom(totals, files_with_sites, k, year, month) ==
    IF k > Len(files_with_sites) THEN totals
    ELSE LET fs == files_with_sites[k]
             site == IF fs.site_name # <<>> THEN fs.site_name ELSE PathStem(fs.path)
         IN  BillFilesFrom(IF OpenRaises(fs.file) THEN totals
                           ELSE BillRowsFrom(totals, fs.file, 1, site, year, month),
                           files_with_sites, k + 1, year, month)

\* mutant: each label keeps the units of the last file only
_sum_billed_units_by_site_last_file(files_with_sites, year, month) ==
    BillFilesFrom(<<>>, files_with_sites,
                  IF files_with_sites = <<>> THEN 1 ELSE Len(files_with_sites),
                  year, month)

_sum_billed_units_by_site(files_with_sites, year, month) ==
    BillFilesFrom(<<>>, files_with_sites, 1, year, month)

(* Billing runs: a messages file of up to MaxMsgRows rows *)

H_Num_Segments_us == <<"N","u","m","_","S","e","g","m","e","n","t","s">>
G_1 == <<"1">>
G_2 == <<"2">>
G_3 == <<"3">>
G_5 == <<"5">>
G_0 == <<"0">>
G_abc == <<"a","b","c">>
SegmentCells == {G_1, G_2, G_3, G_5, G_0, G_abc, C_Empty}
BillingDateCells == {D_in_iso, D_out_iso, D_us_in}
L_Lobby == <<"L","o","b","b","y">>
P_msgs == <<"d","/","m","s","g","s",".","c","s","v">>

\* the segment count written in each cell, -1 when it is not a number, and
\* the year and month of the date written in each cell (written out by hand)
SegCountOf(cell) ==
    CASE cell = G_1 -> 1 [] cell = G_2 -> 2 [] cell = G_3 -> 3
      [] cell = G_5 -> 5 [] cell = G_0 -> 0 [] OTHER -> -1
DateYM(cell) ==
    CASE cell = D_in_iso -> <<2025, 5>>
      [] cell = D_in_emb -> <<2025, 5>>
      [] cell = D_out_iso -> <<2025, 6>>
      [] cell = D_us_in -> <<2025, 5>>
      [] OTHER -> NoneYM

BillingLayouts == {<<H_SentDate, H_NumSegments>>, <<H_SentDate, H_Num_Segments_us>>,
                   <<H_SentDate, H_Num_Segments>>, <<H_SentDate, H_Body>>}
BillingRows == {<<d, g>> : d \in BillingDateCells, g \in SegmentCells}
                   \cup {<<d>> : d \in BillingDateCells} \cup {<<>>}

InitBilling ==
    /\ csv \in {[headers |-> h, rows |-> r] :
                    h \in BillingLayouts, r \in SeqsUpTo(BillingRows, MaxMsgRows)}
    /\ target \in {[kind |-> "messages", year |-> p[1], month |-> p[2]] : p \in Periods}
    /\ clients_doc = NoClients
    /\ res = NoRes
    /\ ViewIdle

SumBilledUnitsBySite ==
    /\ "_sum_billed_units_by_site" \notin res.ops
    /\ res' = [res EXCEPT
                 !.ops = @ \cup {"_sum_billed_units_by_site"},
                 !.billed = _sum_billed_units_by_site(
                                << [file |-> csv, path |-> P_msgs, site_name |-> L_Lobby] >>,
                                target.year, target.month)]
    /\ UNCHANGED inVars
    /\ UNCHANGED viewVars

NextBilling == SumBilledUnitsBySite

SpecBilling == InitBilling /\ [][NextBilling]_vars

Billed == "_sum_billed_units_by_site" \in res.ops
BilledQty == IF L_Lobby \in DOMAIN res.billed THEN res.billed[L_Lobby] ELSE 0
\* the segment column the aggregator reads, by its header names
SegmentCol ==
    IF \E i \in 1..Len(csv.headers) : csv.headers[i] \in {H_NumSegments, H_Num_Segments_us}
    THEN CHOOSE i \in 1..Len(csv.headers) : csv.headers[i] \in {H_NumSegments, H_Num_Segments_us}
    ELSE 0
RowInPeriod(r) ==
    /\ Len(csv.rows[r]) >= 1
    /\ DateYM(csv.rows[r][1]) = <<target.year, target.month>>
\* the segment count of row r: -1 when the column is absent or the cell is
\* missing or not a number
RowSegments(r) ==
    IF SegmentCol = 0 \/ SegmentCol > Len(csv.rows[r]) THEN -1
    ELSE SegCountOf(csv.rows[r][SegmentCol])
HasZeroRow == \E r \in 1..Len(csv.rows) : RowInPeriod(r) /\ RowSegments(r) = 0

\* the units of rows 1..r when a row of zero segments bills zeroUnits
RECURSIVE UnitsUpTo(_, _)
UnitsUpTo(r, zeroUnits) ==
    IF r = 0 THEN 0
    ELSE UnitsUpTo(r - 1, zeroUnits)
         + (IF ~RowInPeriod(r) THEN 0
            ELSE IF RowSegments(r) = -1 THEN 1
            ELSE IF RowSegments(r) = 0 THEN zeroUnits
            ELSE (RowSegments(r) + 1) \div 2)

\* C3: every in-period messages row adds ceil(n/2) units for its segment
\* count n >= 1 and 1 unit when the segment column is absent or the cell is
\* not a number; out-of-period rows add nothing.
C3_CeilHalfSegments ==
    (Billed /\ ~HasZeroRow) => BilledQty = UnitsUpTo(Len(csv.rows), 0)

C3_Witness ==
    /\ Billed /\ Len(csv.rows) = 2 /\ SegmentCol # 0
    /\ RowInPeriod(1) /\ RowSegments(1) = 3
    /\ RowInPeriod(2) /\ RowSegments(2) = -1
    /\ BilledQty = 3

----------------------------------------------------------------------------
(* Line items: invoicing.new_monthly_invoice, add_line_item, _recalc_totals, *)
(* build_voice_line_item, aggregate_voice_items_from_csvs,                   *)
(* _normalize_site_key, _build_priority_phone_map, _lookup_last4,            *)
(* add_voice_items_to_invoice, add_message_items_to_invoice                  *)

UNIT_PRICE_VOICE == 14    \* cents
UNIT_PRICE_SMS == 14      \* cents

\* U+2013 and U+2014, each one character of the text
EnDash == "<U+2013>"
EmDash == "<U+2014>"

\* characters in code-point order
CharOrder == <<"\t", " ", "(", ")", "+", "-", ".", "/",
               "0","1","2","3","4","5","6","7","8","9", ":", ">",
               "A","B","C","D","E","F","G","H","I","J","K","L","M",
               "N","O","P","Q","R","S","T","U","V","W","X","Y","Z", "_",
               "a","b","c","d","e","f","g","h","i","j","k","l","m",
               "n","o","p","q","r","s","t","u","v","w","x","y","z", EnDash, EmDash>>
CharCode(c) == CHOOSE i \in 1..Len(CharOrder) : CharOrder[i] = c

\* a < b on strings
RECURSIVE StrLess(_, _)
StrLess(a, b) ==
    IF b = <<>> THEN FALSE
    ELSE IF a = <<>> THEN TRUE
    ELSE IF a[1] = b[1] THEN StrLess(Tail(a), Tail(b))
    ELSE CharCode(a[1]) < CharCode(b[1])

\* sorted(S) for a set of strings
RECURSIVE SortedStrs(_)
SortedStrs(S) ==
    IF S = {} THEN <<>>
    ELSE LET lo == CHOOSE x \in S : \A y \in S \ {x} : StrLess(x, y)
         IN  <<lo>> \o SortedStrs(S \ {lo})

\* str.upper() on one character
ToUpper(c) ==
    IF \E i \in 1..26 : LowerAlpha[i] = c
    THEN UpperAlpha[CHOOSE i \in 1..26 : LowerAlpha[i] = c]
    ELSE c
Upper(s) == [i \in 1..Len(s) |-> ToUpper(s[i])]

\* re.sub(r"\s+", " ", s)
RECURSIVE CollapseSpaces(_)
CollapseSpaces(s) ==
    IF s = <<>> THEN <<>>
    ELSE IF IsSpace(s[1])
         THEN <<" ">> \o CollapseSpaces(LStrip(s))
         ELSE <<s[1]>> \o CollapseSpaces(Tail(s))

\* position of the first occurrence of t in s, 0 if none
Find(s, t) ==
    IF \E i \in 1..(Len(s) - Len(t) + 1) : SubSeq(s, i, i + Len(t) - 1) = t
    THEN CHOOSE i \in 1..(Len(s) - Len(t) + 1) :
            /\ SubSeq(s, i, i + Len(t) - 1) = t
            /\ \A j \in 1..(i - 1) : SubSeq(s, j, j + Len(t) - 1) # t
    ELSE 0

\* s[:-len(suf)].strip() if s.endswith(suf) else s
StripSuffix(s, suf) ==
    IF EndsWith(s, suf) THEN Strip(SubSeq(s, 1, Len(s) - Len(suf))) ELSE s

S_Voice == <<" ","V","o","i","c","e">>
S_VOICE == <<" ","V","O","I","C","E">>
S_SMS == <<" ","S","M","S">>
S_dashVOICE == <<" ",EnDash," ","V","O","I","C","E">>
S_dashSMS == <<" ",EnDash," ","S","M","S">>

new_monthly_invoice(year, month) ==
    [created |-> TRUE, year |-> year, month |-> month, line_items |-> <<>>,
     subtotal |-> 0, tax |-> 0, total |-> 0, client_name_snapshot |-> <<>>]

\* float(inv.get("tax_rate", 0.0)), in hundredths of a percent
TaxRateOf(inv) == IF "tax_rate" \in DOMAIN inv THEN inv.tax_rate ELSE 0

\* round(subtotal * tax_rate, 2) in cents; no product of the runs lies
\* halfway between two cents
TaxOf(subtotal, rate) == (subtotal * rate + 5000) \div 10000

\* the line items with their amounts recomputed
WithAmounts(items) ==
    [i \in 1..Len(items) |-> [items[i] EXCEPT !.amount = items[i].qty * items[i].unit_price]]

\* subtotal += it["amount"] over the line items
RECURSIVE SubtotalOf(_)
SubtotalOf(items) ==
    IF items = <<>> THEN 0 ELSE items[1].amount + SubtotalOf(Tail(items))

\* mutant: the total leaves the tax out
_recalc_totals_without_tax(inv) ==
    [inv EXCEPT !.line_items = WithAmounts(inv.line_items),
                !.subtotal = SubtotalOf(WithAmounts(inv.line_items)),
                !.tax = TaxOf(SubtotalOf(WithAmounts(inv.line_items)), TaxRateOf(inv)),
                !.total = SubtotalOf(WithAmounts(inv.line_items))]

\* amounts and totals in cents
_recalc_totals(inv) ==
    [inv EXCEPT !.line_items = WithAmounts(inv.line_items),
                !.subtotal = SubtotalOf(WithAmounts(inv.line_items)),
                !.tax = TaxOf(SubtotalOf(WithAmounts(inv.line_items)), TaxRateOf(inv)),
                !.total = SubtotalOf(WithAmounts(inv.line_items))
                          + TaxOf(SubtotalOf(WithAmounts(inv.line_items)), TaxRateOf(inv))]

\* inv["tax_rate"] = float(tax_rate), then the totals again
set_tax_rate(inv, tax_rate) ==
    _recalc_totals([k \in DOMAIN inv \cup {"tax_rate"} |->
                       IF k = "tax_rate" THEN tax_rate ELSE inv[k]])

add_line_item(inv, description, qty, unit_price) ==
    _recalc_totals([inv EXCEPT !.line_items =
        Append(@, [description |-> Strip(description), qty |-> qty,
                   unit_price |-> unit_price, amount |-> 0])])

build_voice_line_item(site_name, qty) ==
    LET base == Strip(site_name)
    IN  [description |-> IF EndsWith(Upper(base), <<"V","O","I","C","E">>) THEN base
                         ELSE IF base # <<>> THEN base \o S_Voice
                         ELSE <<"V","o","i","c","e">>,
         qty |-> qty, unit_price |-> UNIT_PRICE_VOICE]

\* mutant: a pair without a site name goes to one bucket "unassigned"
LabelOf_unassigned(fs) ==
    IF fs.site_name # <<>> THEN fs.site_name
    ELSE <<"u","n","a","s","s","i","g","n","e","d">>

\* the label of a (file, site) pair: site_name or Path(path).stem
LabelOf(fs) == IF fs.site_name # <<>> THEN fs.site_name ELSE PathStem(fs.path)

\* by_site after the files k.. of files_with_sites
RECURSIVE VoiceBySiteFrom(_, _, _, _, _)
VoiceBySiteFrom(by_site, files_with_sites, k, year, month) ==
    IF k > Len(files_with_sites) THEN by_site
    ELSE LET fs == files_with_sites[k]
             qty == IF year # 0 /\ month # 0
                    THEN count_rows_calls_csv(fs.file, year, month)
                    ELSE count_rows_calls_csv(fs.file, NoneInt, NoneInt)
         IN  VoiceBySiteFrom(DictAdd(by_site, LabelOf(fs), qty),
                             files_with_sites, k + 1, year, month)

\* count_rows_calls_csv opens the file outside any try block, and neither
\* aggregate_voice_items_from_csvs nor add_voice_items_to_invoice catches
VoiceItemsRaise(files_with_sites) ==
    \E k \in 1..Len(files_with_sites) : OpenRaises(files_with_sites[k].file)

\* the labels of the files k.. in the order they are first met
RECURSIVE LabelsInOrderFrom(_, _)
LabelsInOrderFrom(files_with_sites, k) ==
    IF k > Len(files_with_sites) THEN <<>>
    ELSE <<LabelOf(files_with_sites[k])>>
             \o SelectSeq(LabelsInOrderFrom(files_with_sites, k + 1),
                          LAMBDA l : l # LabelOf(files_with_sites[k]))

\* mutant: the items keep the order in which the labels are first met
aggregate_voice_items_from_csvs_unsorted(files_with_sites, year, month) ==
    LET Items(by_site, keys) ==
            [i \in 1..Len(keys) |-> build_voice_line_item(keys[i], by_site[keys[i]])]
    IN  Items(VoiceBySiteFrom(<<>>, files_with_sites, 1, year, month),
              LabelsInOrderFrom(files_with_sites, 1))

aggregate_voice_items_from_csvs(files_with_sites, year, month) ==
    LET by_site == VoiceBySiteFrom(<<>>, files_with_sites, 1, year, month)
        keys == SortedStrs(DOMAIN by_site)
    IN  [i \in 1..Len(keys) |-> build_voice_line_item(keys[i], by_site[keys[i]])]

_normalize_site_key(name) ==
    IF name = <<>> THEN <<>>
    ELSE LET u == Strip(Upper(name))
             v == [i \in 1..Len(u) |-> IF u[i] \in {EmDash, EnDash} THEN "-" ELSE u[i]]
         IN  CollapseSpaces(v)

IsLast4(ph) == Len(ph) = 4 /\ AllDigits(ph, 1, 4)

\* phones.setdefault(key, ph) over the sites k.. of the registry
RECURSIVE RegistryPhonesFrom(_, _, _)
RegistryPhonesFrom(phones, sites, k) ==
    IF k > Len(sites) THEN phones
    ELSE LET n == Strip(sites[k].site_name)
             ph == Strip(sites[k].phone)
             key == _normalize_site_key(n)
         IN  RegistryPhonesFrom(
                 IF n # <<>> /\ IsLast4(ph) /\ key \notin DOMAIN phones
                 THEN phones @@ (key :> ph) ELSE phones,
                 sites, k + 1)

\* inv.get("site_phones") or {}: the (key, value) entries in insertion order;
\* an invoice that was never given the mapping has no such field
SitePhonesOf(inv) == IF "site_phones" \in DOMAIN inv THEN inv.site_phones ELSE <<>>

\* phones[key] = v on a dict
DictSet(phones, key, v) ==
    [x \in DOMAIN phones \cup {key} |-> IF x = key THEN v ELSE phones[x]]

\* phones[_normalize_site_key(k)] = sv over the entries k.. of site_phones
RECURSIVE OverridePhonesFrom(_, _, _)
OverridePhonesFrom(phones, sp, k) ==
    IF k > Len(sp) THEN phones
    ELSE OverridePhonesFrom(
             IF IsLast4(sp[k].value)
             THEN DictSet(phones, _normalize_site_key(sp[k].key), sp[k].value)
             ELSE phones,
             sp, k + 1)

\* the overrides first, then the registry through setdefault
_build_priority_phone_map(inv, doc) ==
    RegistryPhonesFrom(OverridePhonesFrom(<<>>, SitePhonesOf(inv), 1),
                       SitesOfClients(doc.clients), 1)

\* the last-4 for a description, <<>> for None
_lookup_last4(phones, desc) ==
    LET key == _normalize_site_key(desc)
        suf == IF EndsWith(key, S_VOICE) THEN S_VOICE
               ELSE IF EndsWith(key, S_SMS) THEN S_SMS ELSE <<>>
        k == Strip(SubSeq(key, 1, Len(key) - Len(suf)))
        key2 == IF suf # <<>> THEN k ELSE key
        dash == Find(key2, <<" ","-"," ">>)
        left == Strip(SubSeq(key2, 1, dash - 1))
    IN  IF desc = <<>> THEN <<>>
        ELSE IF key \in DOMAIN phones THEN phones[key]
        ELSE IF suf # <<>> /\ k \in DOMAIN phones THEN phones[k]
        ELSE IF dash # 0 /\ left \in DOMAIN phones THEN phones[left]
        ELSE <<>>

RECURSIVE AddVoiceItemsFrom(_, _, _, _, _)
AddVoiceItemsFrom(inv, items, k, phones, unit_price) ==
    IF k > Len(items) THEN inv
    ELSE LET d0 == Strip(items[k].description)
             d1 == StripSuffix(d0, S_dashVOICE)
             d2 == StripSuffix(d1, S_dashSMS)
             d3 == StripSuffix(d2, S_VOICE)
             desc == StripSuffix(d3, S_SMS)
             last4 == _lookup_last4(phones, desc)
             decorated == IF last4 # <<>>
                          THEN desc \o <<" ", "(", "-">> \o last4 \o <<")">>
                          ELSE desc
         IN  AddVoiceItemsFrom(add_line_item(inv, decorated, items[k].qty, unit_price),
                               items, k + 1, phones, unit_price)

add_voice_items_to_invoice(inv, files_with_sites, year, month, unit_price, doc) ==
    AddVoiceItemsFrom(inv, aggregate_voice_items_from_csvs(files_with_sites, year, month),
                      1, _build_priority_phone_map(inv, doc), unit_price)

RECURSIVE AddMessageItemsFrom(_, _, _, _, _)
AddMessageItemsFrom(inv, billed, keys, k, unit_price) ==
    IF k > Len(keys) THEN inv
    ELSE LET base == Strip(keys[k])
             desc == IF EndsWith(Upper(base), <<"S","M","S">>) THEN base
                     ELSE IF base # <<>> THEN base \o S_SMS
                     ELSE <<"S","M","S">>
         IN  AddMessageItemsFrom(
                 IF billed[keys[k]] <= 0 THEN inv
                 ELSE add_line_item(inv, desc, billed[keys[k]], unit_price),
                 billed, keys, k + 1, unit_price)

add_message_items_to_invoice(inv, messages_with_sites, year, month, unit_price) ==
    LET Added(billed) == AddMessageItemsFrom(inv, billed, SortedStrs(DOMAIN billed), 1, unit_price)
    IN  _recalc_totals(Added(_sum_billed_units_by_site(messages_with_sites, year, month)))

----------------------------------------------------------------------------
(* The monthly-import view: app.MonthlyImportView *)

\* int(text): whitespace is ignored, a sign is accepted
PyInt(text) ==
    LET t == Strip(text)
        signed == t # <<>> /\ t[1] \in {"+", "-"}
        u == IF signed THEN Tail(t) ELSE t
    IN  IF u # <<>> /\ AllDigits(u, 1, Len(u))
        THEN [ok |-> TRUE, val |-> IF signed /\ t[1] = "-" THEN 0 - IntOf(u) ELSE IntOf(u)]
        ELSE [ok |-> FALSE, val |-> 0]

\* <<year, month>>, NoneYM for (None, None)
_get_year_month(year_text, month_text) ==
    LET y == PyInt(Strip(year_text))
        m == PyInt(Strip(month_text))
    IN  IF y.ok /\ m.ok /\ 1 <= m.val /\ m.val <= 12 /\ 2000 <= y.val /\ y.val <= 2100
        THEN <<y.val, m.val>>
        ELSE NoneYM

\* " > ".join(parts)
RECURSIVE JoinParts(_)
JoinParts(parts) ==
    IF parts = <<>> THEN <<>>
    ELSE IF Len(parts) = 1 THEN parts[1]
    ELSE parts[1] \o <<" ", ">", " ">> \o JoinParts(Tail(parts))

_format_match(match) ==
    IF ~match.found THEN <<>>
    ELSE JoinParts(SelectSeq(<<match.client_name, match.division_name, match.site_name>>,
                             LAMBDA part : part # <<>>))

\* text.split(">")
RECURSIVE SplitGt(_)
SplitGt(text) ==
    LET i == Find(text, <<">">>)
    IN  IF i = 0 THEN <<text>>
        ELSE <<SubSeq(text, 1, i - 1)>> \o SplitGt(SubSeq(text, i + 1, Len(text)))

\* the last non-blank part, <<>> for None
_site_from_match(text) ==
    LET all == SplitGt(text)
        parts == SelectSeq([i \in 1..Len(all) |-> Strip(all[i])], LAMBDA part : part # <<>>)
    IN  IF parts = <<>> THEN <<>> ELSE parts[Len(parts)]

\* the row add_files inserts for one path
InsertedRow(path, files, doc) ==
    LET info == identify_csv_and_phone(files[path], doc)
    IN  [file |-> path, type |-> info.kind, phone |-> info.phone,
         match |-> _format_match(info.match), tags |-> ""]

_validate_row(row, ym, files) ==
    IF ym = NoneYM THEN [row EXCEPT !.tags = "unk"]
    ELSE [row EXCEPT !.tags =
             IF check_csv_month_year(files[row.file], row.type, ym[1], ym[2]).ok
             THEN "ok" ELSE "bad"]

_revalidate_all(rows, year_text, month_text, files) ==
    [i \in 1..Len(rows) |-> _validate_row(rows[i], _get_year_month(year_text, month_text), files)]

add_files(rows, paths, year_text, month_text, files, doc) ==
    _revalidate_all(rows \o [i \in 1..Len(paths) |-> InsertedRow(paths[i], files, doc)],
                    year_text, month_text, files)

remove_selected(rows, selection) ==
    LET Keep[i \in 0..Len(rows)] ==
            IF i = 0 THEN <<>>
            ELSE IF i \in selection THEN Keep[i - 1] ELSE Append(Keep[i - 1], rows[i])
    IN  Keep[Len(rows)]

clear_all(rows) == <<>>

\* the month and year texts pass _apply_month_year's own test
ApplyAccepts(year_text, month_text) ==
    /\ PyInt(month_text).ok /\ PyInt(year_text).ok
    /\ 1 <= PyInt(month_text).val /\ PyInt(month_text).val <= 12

\* the (file, site) pairs on_continue hands to the aggregators
FilesWithSites(rows, kind, files) ==
    LET picked == SelectSeq(rows, LAMBDA row : row.tags = "ok" /\ row.type = kind)
    IN  [i \in 1..Len(picked) |->
            [file |-> files[picked[i].file], path |-> picked[i].file,
             site_name |-> _site_from_match(picked[i].match)]]

\* on_continue's _norm_name
_norm_name(text) ==
    LET u == Strip(Upper(text))
        v == CollapseSpaces([i \in 1..Len(u) |-> IF u[i] \in {EmDash, EnDash} THEN "-" ELSE u[i]])
        s1 == StripSuffix(v, S_VOICE)
        s2 == StripSuffix(s1, S_SMS)
        s3 == StripSuffix(s2, <<"-"," ","V","O","I","C","E">>)
    IN  StripSuffix(s3, <<"-"," ","S","M","S">>)

\* the name of the first client that has a site matching a billed site, <<>>
\* for None
ParentName(pairs, doc) ==
    LET target_sites == {_norm_name(pairs[i].site_name) :
                            i \in {j \in 1..Len(pairs) : pairs[j].site_name # <<>>}}
        sites == SitesOfClients(doc.clients)
        Hit(i) == \E t \in target_sites : Find(_norm_name(sites[i].site_name), t) # 0
    IN  IF \E i \in 1..Len(sites) : Hit(i)
        THEN sites[CHOOSE i \in 1..Len(sites) : Hit(i) /\ \A j \in 1..(i - 1) : ~Hit(j)].client_name
        ELSE <<>>

\* "if calls_with_sites: add_voice_items_to_invoice(...)"
WithVoiceItems(inv, calls_with_sites, ym, doc) ==
    IF calls_with_sites # <<>>
    THEN add_voice_items_to_invoice(inv, calls_with_sites, ym[1], ym[2], UNIT_PRICE_VOICE, doc)
    ELSE inv

\* "if messages_with_sites: add_message_items_to_invoice(...)"
WithMessageItems(inv, messages_with_sites, ym) ==
    IF messages_with_sites # <<>>
    THEN add_message_items_to_invoice(inv, messages_with_sites, ym[1], ym[2], UNIT_PRICE_SMS)
    ELSE inv

\* "if parent_name: inv_obj['client_name_snapshot'] = parent_name"
WithParentName(inv, pairs, doc) ==
    [inv EXCEPT !.client_name_snapshot = ParentName(pairs, doc)]

\* the invoice on_continue builds once every row is validated
BuiltInvoice(rows, ym, files, doc) ==
    WithParentName(
        WithMessageItems(
            WithVoiceItems(new_monthly_invoice(ym[1], ym[2]),
                           FilesWithSites(rows, "calls", files), ym, doc),
            FilesWithSites(rows, "messages", files), ym),
        FilesWithSites(rows, "calls", files) \o FilesWithSites(rows, "messages", files),
        doc)

\* mutant: only rows tagged 'bad' stop the invoice
on_continue_bad_tag_only(rows, year_text, month_text, files, doc, finalize_ok) ==
    LET ym == _get_year_month(year_text, month_text)
        notok == SelectSeq(rows, LAMBDA row : row.tags = "bad")
        bad == [i \in 1..Len(notok) |-> PathName(notok[i].file)]
    IN  IF ym = NoneYM
        THEN [msgbox |-> [title |-> "Month/Year required", names |-> <<>>],
              inv_obj |-> NoInvoice]
        ELSE IF bad # <<>>
        THEN [msgbox |-> [title |-> "Validation failed", names |-> bad],
              inv_obj |-> NoInvoice]
        ELSE [msgbox |-> [title |-> IF finalize_ok THEN "Invoice created" ELSE "Invoice error",
                          names |-> <<>>],
              inv_obj |-> BuiltInvoice(rows, ym, files, doc)]

\* the message box on_continue ends with and the invoice it has built
on_continue(rows, year_text, month_text, files, doc, finalize_ok) ==
    LET ym == _get_year_month(year_text, month_text)
        notok == SelectSeq(rows, LAMBDA row : row.tags # "ok")
        bad == [i \in 1..Len(notok) |-> PathName(notok[i].file)]
    IN  IF ym = NoneYM
        THEN [msgbox |-> [title |-> "Month/Year required", names |-> <<>>],
              inv_obj |-> NoInvoice]
        ELSE IF bad # <<>>
        THEN [msgbox |-> [title |-> "Validation failed", names |-> bad],
              inv_obj |-> NoInvoice]
        ELSE [msgbox |-> [title |-> IF finalize_ok THEN "Invoice created" ELSE "Invoice error",
                          names |-> <<>>],
              inv_obj |-> BuiltInvoice(rows, ym, files, doc)]

(* The registry file: view_clients.load_clients, as add_files calls it *)

\* int(doc.get("version", 1))
VersionOf(doc) == IF "version" \in DOMAIN doc THEN doc.version ELSE 1

\* str(uuid.uuid4()); the pipeline never compares ids, one token stands for
\* every fresh id
NewId == <<"u","u","i","d","4">>

L_General == <<"G","e","n","e","r","a","l">>

\* the sites made of the legacy suborgs of a client
SitesOfSuborgs(suborgs) ==
    [i \in 1..Len(suborgs) |->
        [id |-> NewId, name |-> suborgs[i].name, phone |-> suborgs[i].phone]]

\* one client after the migration loop: a client that has divisions is left
\* alone, the suborgs of a legacy client become one division "General"
MigratedClient(c) ==
    IF "divisions" \in DOMAIN c THEN c
    ELSE [k \in (DOMAIN c \ {"suborgs"}) \cup {"divisions", "address"} |->
             IF k = "divisions"
             THEN <<[id |-> NewId, name |-> L_General,
                     sites |-> SitesOfSuborgs(IF "suborgs" \in DOMAIN c
                                              THEN c.suborgs ELSE <<>>)]>>
             ELSE IF k = "address" /\ "address" \notin DOMAIN c THEN <<>>
             ELSE c[k]]

\* mutant: the migration drops the suborgs of a legacy client
_migrate_if_needed_dropping_suborgs(doc) ==
    IF VersionOf(doc) >= 2 THEN doc
    ELSE [k \in DOMAIN doc \cup {"version"} |->
             IF k = "version" THEN 2
             ELSE IF k = "clients"
             THEN [i \in 1..Len(doc.clients) |->
                      IF "divisions" \in DOMAIN doc.clients[i] THEN doc.clients[i]
                      ELSE [name |-> doc.clients[i].name, address |-> <<>>,
                            divisions |-> <<[id |-> NewId, name |-> L_General,
                                             sites |-> <<>>]>>]]
             ELSE doc[k]]

_migrate_if_needed(doc) ==
    IF VersionOf(doc) >= 2 THEN doc
    ELSE [k \in DOMAIN doc \cup {"version"} |->
             IF k = "version" THEN 2
             ELSE IF k = "clients"
             THEN [i \in 1..Len(doc.clients) |-> MigratedClient(doc.clients[i])]
             ELSE doc[k]]

\* the document as returned and the file as it is left: the document is
\* written back whenever its version is 2
LoadedAndStored(doc, stored) ==
    [doc |-> doc, stored |-> IF VersionOf(doc) = 2 THEN doc ELSE stored]

load_clients(stored) == LoadedAndStored(_migrate_if_needed(stored), stored)

(* View runs: five files on disk, one registry, up to MaxTree listed rows *)

P_cm == <<"d","/","c","m",".","c","s","v">>
P_cx == <<"d","/","c","x",".","c","s","v">>
P_mm == <<"d","/","m","m",".","c","s","v">>
P_nt == <<"d","/","n","t",".","c","s","v">>
P_e_cm == <<"e","/","c","m",".","c","s","v">>
ViewPaths == {P_cm, P_cx, P_mm, P_nt, P_e_cm}

\* calls in May 2025 from Lobby; calls in May and June from Annex; messages
\* in May from Lobby; a file of neither kind; calls in June from an
\* unregistered number
ViewDisk ==
    (P_cm :> [headers |-> <<H_StartTime, H_From, H_Duration>>,
              rows |-> << <<D_in_iso, ID_8675309, G_3>>, <<D_in_emb, C_Empty, G_1>> >>])
    @@ (P_cx :> [headers |-> <<H_StartTime, H_From, H_Duration>>,
                 rows |-> << <<D_in_iso, ID_plus0000, G_2>>, <<D_out_iso, ID_plus0000, G_2>> >>])
    @@ (P_mm :> [headers |-> <<H_SentDate, H_From, H_NumSegments>>,
                 rows |-> << <<D_in_iso, ID_8675309, G_3>>, <<D_in_iso, ID_8675309, G_2>> >>])
    @@ (P_nt :> [headers |-> <<H_Body>>, rows |-> << <<G_abc>> >>])
    @@ (P_e_cm :> [headers |-> <<H_StartTime, H_From, H_Duration>>,
                   rows |-> << <<D_out_iso, ID_1234, G_1>> >>])

L_Annex == <<"A","n","n","e","x">>
L_Acme == <<"A","c","m","e">>
L_West == <<"W","e","s","t">>
ViewRegistry ==
    [version |-> 2,
     clients |-> << [name |-> L_Acme,
                     divisions |-> << [name |-> L_West,
                                       sites |-> << [name |-> L_Lobby, phone |-> SP_5309],
                                                    [name |-> L_Annex, phone |-> <<"0","0","0","0">>] >>] >>] >>]

Y_2025 == <<"2","0","2","5">>
Y_1999 == <<"1","9","9","9">>
YearTexts == {Y_2025, Y_1999}
M_5 == <<"5">>
M_6 == <<" ","6">>
M_13 == <<"1","3">>
MonthTexts == {M_5, M_6, M_13}

\* the entries start at the current month and year
InitView ==
    /\ PureIdle
    /\ clients_doc = ViewRegistry
    /\ disk = ViewDisk
    /\ tree = <<>>
    /\ year_var = Y_2025
    /\ month_var \in {M_5, M_6}
    /\ inv_obj = NoInvoice
    /\ msgbox = NoBox

\* "Add Files...": the dialog returns one or more paths
AddFiles ==
    /\ msgbox = NoBox
    /\ \E paths \in SeqsUpTo(ViewPaths, MaxTree - Len(tree)) \ {<<>>} :
          \E out \in {load_clients(clients_doc)} :
              /\ clients_doc' = out.stored
              /\ tree' = add_files(tree, paths, year_var, month_var, disk, out.doc)
    /\ UNCHANGED <<csv, target, res, disk, year_var, month_var, inv_obj, msgbox>>

RemoveSelected ==
    /\ msgbox = NoBox
    /\ \E selection \in (SUBSET (1..Len(tree))) \ {{}} :
          tree' = remove_selected(tree, selection)
    /\ UNCHANGED <<csv, target, res, clients_doc, disk, year_var, month_var, inv_obj, msgbox>>

ClearAll ==
    /\ msgbox = NoBox
    /\ tree # <<>>
    /\ tree' = clear_all(tree)
    /\ UNCHANGED <<csv, target, res, clients_doc, disk, year_var, month_var, inv_obj, msgbox>>

\* typing in the Year entry
EditYear ==
    /\ msgbox = NoBox
    /\ \E t \in YearTexts \ {year_var} : year_var' = t
    /\ UNCHANGED <<csv, target, res, clients_doc, disk, tree, month_var, inv_obj, msgbox>>

\* typing in the Month entry
EditMonth ==
    /\ msgbox = NoBox
    /\ \E t \in MonthTexts \ {month_var} : month_var' = t
    /\ UNCHANGED <<csv, target, res, clients_doc, disk, tree, year_var, inv_obj, msgbox>>

\* <FocusOut> or <Return> on either entry
RevalidateAll ==
    /\ msgbox = NoBox
    /\ tree' = _revalidate_all(tree, year_var, month_var, disk)
    /\ tree' # tree
    /\ UNCHANGED <<csv, target, res, clients_doc, disk, year_var, month_var, inv_obj, msgbox>>

\* "Apply" (the starting-number entry is left empty)
ApplyMonthYear ==
    /\ msgbox = NoBox
    /\ IF ApplyAccepts(year_var, month_var)
       THEN /\ tree' = _revalidate_all(tree, year_var, month_var, disk)
            /\ tree' # tree
            /\ UNCHANGED msgbox
       ELSE /\ msgbox' = [title |-> "Month/Year", names |-> <<>>]
            /\ UNCHANGED tree
    /\ UNCHANGED <<csv, target, res, clients_doc, disk, year_var, month_var, inv_obj>>

\* "Continue"; finalize_with_template either returns or raises
OnContinue ==
    /\ msgbox = NoBox
    /\ \E finalize_ok \in BOOLEAN :
          \E out \in {on_continue(tree, year_var, month_var, disk, clients_doc, finalize_ok)} :
              /\ msgbox' = out.msgbox
              /\ inv_obj' = out.inv_obj
    /\ UNCHANGED <<csv, target, res, clients_doc, disk, tree, year_var, month_var>>

\* the message box is closed; the invoice was local to on_continue
Dismiss ==
    /\ msgbox # NoBox
    /\ msgbox' = NoBox
    /\ inv_obj' = NoInvoice
    /\ UNCHANGED <<csv, target, res, clients_doc, disk, tree, year_var, month_var>>

NextView ==
    \/ AddFiles
    \/ RemoveSelected
    \/ ClearAll
    \/ EditYear
    \/ EditMonth
    \/ RevalidateAll
    \/ ApplyMonthYear
    \/ OnContinue
    \/ Dismiss

SpecView == InitView /\ [][NextView]_vars

(* Claim C1 *)

\* base name of each path on disk (written out by hand)
NameOf(path) ==
    CASE path = P_cm -> <<"c","m",".","c","s","v">>
      [] path = P_cx -> <<"c","x",".","c","s","v">>
      [] path = P_mm -> <<"m","m",".","c","s","v">>
      [] path = P_nt -> <<"n","t",".","c","s","v">>
      [] path = P_e_cm -> <<"c","m",".","c","s","v">>

\* the period typed in the entries is a month 1..12 of a year 2000..2100
\* (written out by hand over the texts of the runs)
PeriodIsValid == year_var = Y_2025 /\ month_var \in {M_5, M_6}

\* Continue has run and its message box is still open
ContinueRan ==
    msgbox.title \in {"Month/Year required", "Validation failed",
                      "Invoice created", "Invoice error"}

RowsWithoutOk == {i \in 1..Len(tree) : tree[i].tags # "ok"}

\* the names of the rows without the 'ok' tag, in table order
RECURSIVE NamesWithoutOkFrom(_)
NamesWithoutOkFrom(i) ==
    IF i > Len(tree) THEN <<>>
    ELSE IF i \in RowsWithoutOk THEN <<NameOf(tree[i].file)>> \o NamesWithoutOkFrom(i + 1)
    ELSE NamesWithoutOkFrom(i + 1)

\* C1: when Continue runs with a valid period and some listed row lacks the
\* 'ok' tag, no invoice and no line item is built, and the error lists the
\* name of every row without the tag exactly once, in table order, and the
\* name of no row that has it
C1_NoInvoiceUnlessAllOk ==
    (ContinueRan /\ PeriodIsValid /\ RowsWithoutOk # {})
        => /\ msgbox.title = "Validation failed"
           /\ inv_obj = NoInvoice
           /\ inv_obj.line_items = <<>>
           /\ msgbox.names = NamesWithoutOkFrom(1)

\* Continue was refused on a table that mixes a validated row and a row that
\* is not
C1_Witness ==
    /\ ContinueRan /\ PeriodIsValid
    /\ RowsWithoutOk # {}
    /\ \E i \in 1..Len(tree) : tree[i].tags = "ok"
    /\ msgbox.title = "Validation failed"
    /\ Len(msgbox.names) = Cardinality(RowsWithoutOk)

----------------------------------------------------------------------------
(* Claims C11 - C13 on the period runs *)

\* the year and month each cell denotes under the whole chain ISO text,
\* embedded YYYY-MM-DD, MM/DD/YYYY (written out by hand)
ChainYM(cell) ==
    CASE cell = D_in_iso -> <<2025, 5>>
      [] cell = D_in_emb -> <<2025, 5>>
      [] cell = D_out_iso -> <<2025, 6>>
      [] cell = D_us_in -> <<2025, 5>>
      [] OTHER -> NoneYM

\* the column find_out_of_month_rows reads, by the hand-written tokens
FinderColOf(kind) ==
    IF kind = "calls" THEN ColOf({"starttime"})
    ELSE IF kind = "messages" THEN ColOf({"sentdate"})
    ELSE 0

ChainInPeriodRows(col) ==
    {r \in 1..Len(csv.rows) :
        /\ col # 0 /\ col <= Len(csv.rows[r])
        /\ ChainYM(csv.rows[r][col]) = <<target.year, target.month>>}

\* C11: in a file whose date column both operations locate, a row whose
\* cell holds no YYYY-MM-DD but a MM/DD/YYYY date is in the period exactly
\* when that date's month and year are the target: check_csv_month_year
\* counts it in and find_out_of_month_rows omits it.
C11_FilterReadsUSDates ==
    ({"check_csv_month_year", "find_out_of_month_rows"} \subseteq res.ops
        /\ FinderColOf(target.kind) # 0
        /\ FinderColOf(target.kind) = DateColOf(target.kind)) =>
        LET col == FinderColOf(target.kind)
        IN  /\ res.check.in = Cardinality(ChainInPeriodRows(col))
            /\ {res.find[i][1] : i \in 1..Len(res.find)}
                   = {r + 1 : r \in (1..Len(csv.rows)) \ ChainInPeriodRows(col)}

\* C12: when find_out_of_month_rows locates no date column for the kind
\* (an unknown kind included), it returns one entry per data row, numbered
\* 2, 3, ..., n + 1 in order.
C12_NoDateColumnReportsEveryRow ==
    ("find_out_of_month_rows" \in res.ops /\ FinderColOf(target.kind) = 0) =>
        /\ Len(res.find) = Len(csv.rows)
        /\ \A i \in 1..Len(res.find) : res.find[i][1] = i + 1

\* a file of three data rows without a date column, an unknown kind among
\* the runs
C12_Witness ==
    /\ "find_out_of_month_rows" \in res.ops
    /\ FinderColOf(target.kind) = 0
    /\ target.kind = "unknown"
    /\ Len(csv.rows) = 3
    /\ Len(res.find) = 3 /\ res.find[3][1] = 4

\* C13: the counts of check_csv_month_year account for every data row:
\* in + out = rows = number of data rows, and without a date column or with
\* an unknown kind out = rows = number of data rows and the check is not
\* ok.
C13_CountsCoverEveryRow ==
    "check_csv_month_year" \in res.ops =>
        /\ res.check.in + res.check.out = res.check.rows
        /\ res.check.rows = Len(csv.rows)
        /\ DateColOf(target.kind) = 0 =>
               (res.check.out = Len(csv.rows) /\ ~res.check.ok)

----------------------------------------------------------------------------
(* Filter and aggregator on one file: check_csv_month_year against          *)
(* count_rows_calls_csv (calls) and _sum_billed_units_by_site (messages)    *)

H_Start == <<"S","t","a","r","t">>
AgreeLayouts == {<<H_StartTime, H_Duration>>, <<H_Start, H_Duration>>,
                 <<H_SentDate, H_NumSegments>>}

\* rows of one date cell: a messages row then has no segment cell and bills
\* one unit
InitAgree ==
    /\ csv \in {[headers |-> h, rows |-> r] :
                    h \in AgreeLayouts, r \in SeqsUpTo(PeriodRows, MaxAgreeRows)}
    /\ target \in {[kind |-> k, year |-> p[1], month |-> p[2]] :
                    k \in {"calls", "messages"}, p \in Periods}
    /\ clients_doc = NoClients
    /\ res = NoRes
    /\ ViewIdle

\* the messages aggregator on a file listed as messages
SumBilledUnitsOfMessages ==
    /\ target.kind = "messages"
    /\ SumBilledUnitsBySite

NextAgree == CheckCsvMonthYear \/ CountRowsCallsCsv \/ SumBilledUnitsOfMessages

SpecAgree == InitAgree /\ [][NextAgree]_vars

\* C14: the number of rows the aggregator takes as in-period equals the
\* `in` count of check_csv_month_year, for calls (count_rows_calls_csv) and
\* for messages (_sum_billed_units_by_site, one unit per row here); so a
\* file validated with N rows is billed N.
C14_AggregatorAgreesWithFilter ==
    /\ {"check_csv_month_year", "count_rows_calls_csv"} \subseteq res.ops
           => res.calls_qty = res.check.in
    /\ {"check_csv_month_year", "_sum_billed_units_by_site"} \subseteq res.ops
           => BilledQty = res.check.in

----------------------------------------------------------------------------
(* Line-item runs: add_voice_items_to_invoice / add_message_items_to_invoice *)
(* on a batch of up to MaxBatch (file, site) pairs of one kind               *)

F_calls2 == [headers |-> <<H_StartTime, H_Duration>>,
             rows |-> << <<D_in_iso, G_3>>, <<D_in_emb, G_1>> >>]
F_calls0 == [headers |-> <<H_StartTime, H_Duration>>,
             rows |-> << <<D_out_iso, G_1>> >>]
F_msgs3 == [headers |-> <<H_SentDate, H_NumSegments>>,
            rows |-> << <<D_in_iso, G_3>>, <<D_in_iso, G_2>> >>]
F_msgs0 == [headers |-> <<H_SentDate, H_NumSegments>>,
            rows |-> << <<D_in_iso, G_0>> >>]

L_LobbyVOICE == <<"L","o","b","b","y"," ","V","O","I","C","E">>
L_LobbySMS == <<"L","o","b","b","y"," ","S","M","S">>

\* the (path, site_name) pairs a batch is drawn from; a pair without a site
\* name is labelled by the stem of its path
BatchEntries(kind) ==
    IF kind = "calls"
    THEN {[file |-> f, path |-> P_cm, site_name |-> n] :
             f \in {F_calls2, F_calls0, Unreadable},
             n \in {L_Lobby, L_Annex, L_LobbyVOICE, <<>>}}
    ELSE {[file |-> f, path |-> P_mm, site_name |-> n] :
             f \in {F_msgs3, F_msgs0, Unreadable},
             n \in {L_Lobby, L_Annex, L_LobbySMS, <<>>}}

InitItems ==
    /\ target \in {[kind |-> k, year |-> 2025, month |-> 5] : k \in {"calls", "messages"}}
    /\ csv \in SeqsUpTo(BatchEntries(target.kind), MaxBatch)
    /\ clients_doc = ViewRegistry
    /\ res = NoRes
    /\ disk = <<>> /\ tree = <<>> /\ year_var = <<>> /\ month_var = <<>>
    /\ inv_obj = new_monthly_invoice(target.year, target.month)
    /\ msgbox = NoBox

AddVoiceItemsToInvoice ==
    /\ target.kind = "calls"
    /\ "add_voice_items_to_invoice" \notin res.ops
    /\ IF VoiceItemsRaise(csv)
       THEN /\ res' = [res EXCEPT !.ops = @ \cup {"add_voice_items_to_invoice"},
                                  !.raised = @ \cup {"add_voice_items_to_invoice"}]
            /\ UNCHANGED inv_obj
       ELSE /\ res' = [res EXCEPT !.ops = @ \cup {"add_voice_items_to_invoice"}]
            /\ inv_obj' = add_voice_items_to_invoice(inv_obj, csv, target.year, target.month,
                                                     UNIT_PRICE_VOICE, clients_doc)
    /\ UNCHANGED <<csv, target, clients_doc, disk, tree, year_var, month_var, msgbox>>

AddMessageItemsToInvoice ==
    /\ target.kind = "messages"
    /\ "add_message_items_to_invoice" \notin res.ops
    /\ res' = [res EXCEPT !.ops = @ \cup {"add_message_items_to_invoice"}]
    /\ inv_obj' = add_message_items_to_invoice(inv_obj, csv, target.year, target.month,
                                               UNIT_PRICE_SMS)
    /\ UNCHANGED <<csv, target, clients_doc, disk, tree, year_var, month_var, msgbox>>

NextItems == AddVoiceItemsToInvoice \/ AddMessageItemsToInvoice

SpecItems == InitItems /\ [][NextItems]_vars

ItemsAdded ==
    res.ops \cap {"add_voice_items_to_invoice", "add_message_items_to_invoice"} # {}

\* the batch without the files that cannot be opened
ReadableBatch == SelectSeq(csv, LAMBDA fs : fs.file # Unreadable)

\* C15: a file that cannot be opened contributes nothing and aborts
\* nothing: no exception is raised and the line items are those of the
\* readable files of the batch.
C15_UnreadableFilesSkipped ==
    ItemsAdded =>
        /\ res.raised = {}
        /\ target.kind = "calls" =>
               inv_obj.line_items =
                   add_voice_items_to_invoice(new_monthly_invoice(target.year, target.month),
                       ReadableBatch, target.year, target.month,
                       UNIT_PRICE_VOICE, clients_doc).line_items
        /\ target.kind = "messages" =>
               inv_obj.line_items =
                   add_message_items_to_invoice(new_monthly_invoice(target.year, target.month),
                       ReadableBatch, target.year, target.month,
                       UNIT_PRICE_SMS).line_items

\* C16: after the line items are added the invoice holds no line item of
\* quantity 0, for either kind.
C16_NoZeroQuantityItem ==
    ItemsAdded =>
        \A i \in 1..Len(inv_obj.line_items) : inv_obj.line_items[i].qty > 0

(* Claims C17, C18 *)

D_AnnexVoice0000 == <<"A","n","n","e","x"," ","V","o","i","c","e"," ","(","-","0","0","0","0",")">>
D_LobbyVoice == <<"L","o","b","b","y"," ","V","o","i","c","e">>
D_cmVoice == <<"c","m"," ","V","o","i","c","e">>
D_AnnexSMS == <<"A","n","n","e","x"," ","S","M","S">>
D_mmSMS == <<"m","m"," ","S","M","S">>

\* position of an item's site label in ascending code-point order of the
\* labels Annex < Lobby < Lobby VOICE < cm, mm (written out by hand, by the
\* description the label gets)
AlphaRank(description) ==
    CASE description = D_AnnexVoice0000 -> 1
      [] description = D_AnnexSMS -> 1
      [] description = D_LobbyVoice -> 2
      [] description = L_LobbySMS -> 2
      [] description = L_Lobby -> 3
      [] description = D_cmVoice -> 4
      [] description = D_mmSMS -> 4
      [] OTHER -> 0

\* position of an item's site in the registry's traversal order (Lobby,
\* then Annex), the labels unknown to the registry after them
RegistryRank(description) ==
    CASE description = D_LobbyVoice -> 1
      [] description = L_LobbySMS -> 1
      [] description = L_Lobby -> 1
      [] description = D_AnnexVoice0000 -> 2
      [] description = D_AnnexSMS -> 2
      [] description = D_cmVoice -> 3
      [] description = D_mmSMS -> 3
      [] OTHER -> 0

\* C17 (as stated): the items of sites known to the registry come first, in
\* the registry's traversal order, the other labels after them.
C17_RegistryOrderFirst ==
    ItemsAdded =>
        \A i, j \in 1..Len(inv_obj.line_items) :
            i < j => RegistryRank(inv_obj.line_items[i].description)
                         <= RegistryRank(inv_obj.line_items[j].description)

\* C17 (amended): the items are in ascending code-point order of their site
\* labels, whatever the order of the batch and of the registry.
C17_ItemsSortedByLabel ==
    ItemsAdded =>
        /\ \A i \in 1..Len(inv_obj.line_items) :
               AlphaRank(inv_obj.line_items[i].description) # 0
        /\ \A i, j \in 1..Len(inv_obj.line_items) :
               i < j => AlphaRank(inv_obj.line_items[i].description)
                            <= AlphaRank(inv_obj.line_items[j].description)

\* a batch listing Lobby before Annex, as the registry does, is itemised
\* Annex first
C17_Witness ==
    /\ ItemsAdded
    /\ Len(csv) = 2 /\ csv[1].site_name = L_Lobby /\ csv[2].site_name = L_Annex
    /\ Len(inv_obj.line_items) = 2
    /\ AlphaRank(inv_obj.line_items[1].description) = 1
    /\ AlphaRank(inv_obj.line_items[2].description) = 2

\* the description the claim gives each label (written out by hand)
ClaimedDescription(kind, fs) ==
    IF kind = "calls"
    THEN CASE fs.site_name = L_Lobby -> L_LobbyVOICE
           [] fs.site_name = L_LobbyVOICE -> L_LobbyVOICE
           [] fs.site_name = L_Annex -> <<"A","n","n","e","x"," ","V","O","I","C","E">>
           [] OTHER -> <<"c","m"," ","V","O","I","C","E">>
    ELSE CASE fs.site_name = L_Lobby -> L_LobbySMS
           [] fs.site_name = L_LobbySMS -> L_LobbySMS
           [] fs.site_name = L_Annex -> D_AnnexSMS
           [] OTHER -> D_mmSMS

\* a description without its trailing " (-DDDD)"
Undecorated(description) ==
    IF Len(description) >= 8 /\ description[Len(description)] = ")"
                             /\ description[Len(description) - 6] = "("
    THEN SubSeq(description, 1, Len(description) - 8)
    ELSE description

\* C18: every line item is described "<site name> VOICE" (calls) or
\* "<site name> SMS" (messages), a label already ending with the kind token
\* being used as it is.
C18_DescriptionIsSiteAndKind ==
    ItemsAdded =>
        \A i \in 1..Len(inv_obj.line_items) :
            Undecorated(inv_obj.line_items[i].description)
                \in {ClaimedDescription(target.kind, csv[k]) : k \in 1..Len(csv)}

----------------------------------------------------------------------------
(* Label decoration: decorate_with_last4_kind (the exporters) and           *)
(* decorate_descriptions_with_last4 (the application)                       *)

\* re.search(r"\(-\d{lo,4}\)\s*$", desc)
EndsWithLast4(desc, lo) ==
    \E n \in lo..4 :
        /\ Len(RStrip(desc)) >= n + 3
        /\ RStrip(desc)[Len(RStrip(desc))] = ")"
        /\ AllDigits(RStrip(desc), Len(RStrip(desc)) - n, Len(RStrip(desc)) - 1)
        /\ RStrip(desc)[Len(RStrip(desc)) - n - 1] = "-"
        /\ RStrip(desc)[Len(RStrip(desc)) - n - 2] = "("

W_Voice == <<"V","o","i","c","e">>
W_VOICE == <<"V","O","I","C","E">>
W_Sms == <<"S","m","s">>
W_SMS == <<"S","M","S">>

\* the trailing variants that are stripped before the kind is inferred
KindTails ==
    {<<" ", d, " ">> \o w : d \in {EmDash, EnDash, "-"},
                            w \in {W_Voice, W_VOICE, W_Sms, W_SMS}}

\* while changed: for suf in tails: if s.endswith(suf): s = s[:-len(suf)].rstrip()
RECURSIVE StripKindTails(_)
StripKindTails(s) ==
    IF \E suf \in KindTails : EndsWith(s, suf)
    THEN StripKindTails(RStrip(SubSeq(s, 1,
             Len(s) - Len(CHOOSE suf \in KindTails : EndsWith(s, suf)))))
    ELSE s

\* (kind, base) of the stripped text s; kind <<>> for None
KindAndBaseOf(s) ==
    IF EndsWith(Upper(s), S_SMS)
    THEN [kind |-> W_SMS, base |-> RStrip(SubSeq(s, 1, Len(s) - 3))]
    ELSE IF EndsWith(Upper(s), S_VOICE)
    THEN [kind |-> W_VOICE, base |-> RStrip(SubSeq(s, 1, Len(s) - 5))]
    ELSE [kind |-> <<>>, base |-> s]

_infer_kind_and_base(desc) == KindAndBaseOf(StripKindTails(Strip(desc)))

\* str(v)[-4:]
Last4Chars(v) == IF Len(v) <= 4 THEN v ELSE SubSeq(v, Len(v) - 3, Len(v))

\* phones[k] = str(v)[-4:] over the priority map, keys that are empty dropped
Last4Values(pm) == [k \in DOMAIN pm \ {<<>>} |-> Last4Chars(pm[k])]

\* phones[k] = str(v)[-4:] over the entries k.. of inv['site_phones'], keys as
\* they are written
RECURSIVE RawOverridesFrom(_, _, _)
RawOverridesFrom(phones, sp, k) ==
    IF k > Len(sp) THEN phones
    ELSE RawOverridesFrom(
             IF sp[k].key # <<>> /\ sp[k].value # <<>>
             THEN DictSet(phones, sp[k].key, Last4Chars(sp[k].value))
             ELSE phones,
             sp, k + 1)

\* the fallback to inv['site_phones'] is taken only when the priority map
\* gave nothing
PhonesOrFallback(phones, inv) ==
    IF DOMAIN phones # {} THEN phones ELSE RawOverridesFrom(<<>>, SitePhonesOf(inv), 1)

_phones_map_from_inv(inv, doc) ==
    PhonesOrFallback(Last4Values(_build_priority_phone_map(inv, doc)), inv)

\* ks without the repeats of a key
RECURSIVE KeysInOrder(_, _)
KeysInOrder(ks, seen) ==
    IF ks = <<>> THEN <<>>
    ELSE IF ks[1] \in seen THEN KeysInOrder(Tail(ks), seen)
    ELSE <<ks[1]>> \o KeysInOrder(Tail(ks), seen \cup {ks[1]})

\* the keys of the phone map in the order the dict holds them: the accepted
\* overrides, then the registry sites, then the keys of the fallback
PhoneKeys(phones, inv, doc) ==
    LET sp == SelectSeq(SitePhonesOf(inv), LAMBDA e : IsLast4(e.value))
        sites == SelectSeq(SitesOfClients(doc.clients),
                           LAMBDA s : Strip(s.site_name) # <<>> /\ IsLast4(Strip(s.phone)))
        raw == SitePhonesOf(inv)
    IN  SelectSeq(KeysInOrder(
                      [i \in 1..Len(sp) |-> _normalize_site_key(sp[i].key)]
                      \o [i \in 1..Len(sites) |-> _normalize_site_key(Strip(sites[i].site_name))]
                      \o [i \in 1..Len(raw) |-> raw[i].key], {}),
                  LAMBDA k : k \in DOMAIN phones)

\* t in s
Contains(s, t) == Find(s, t) # 0

\* the longest key that contains the wanted text or is contained in it, the
\* first such key among equals; <<>> for None
BestKey(keys, wanted) ==
    IF \E i \in 1..Len(keys) :
           Contains(wanted, Upper(keys[i])) \/ Contains(Upper(keys[i]), wanted)
    THEN keys[CHOOSE i \in 1..Len(keys) :
                 /\ Contains(wanted, Upper(keys[i])) \/ Contains(Upper(keys[i]), wanted)
                 /\ \A j \in 1..Len(keys) :
                        Contains(wanted, Upper(keys[j])) \/ Contains(Upper(keys[j]), wanted)
                            => \/ Len(keys[j]) < Len(keys[i])
                               \/ Len(keys[j]) = Len(keys[i]) /\ i <= j]
    ELSE <<>>

\* f"{base} (-{last4[-4:]})"
WithLast4(base, last4) == base \o <<" ", "(", "-">> \o Last4Chars(last4) \o <<")">>

\* phones.get(key), <<>> for None
PhoneGet(phones, key) == IF key \in DOMAIN phones THEN phones[key] ELSE <<>>

\* f"{base} {kind}" if kind else base
BaseAndKind(kb) == IF kb.kind # <<>> THEN kb.base \o <<" ">> \o kb.kind ELSE kb.base

\* 1) exact '<base> KIND', then '<base>'; 2) the longest substring match;
\* else the base without a suffix
DecorateResolved(kb, phones, keys) ==
    IF kb.kind # <<>> /\ PhoneGet(phones, BaseAndKind(kb)) # <<>>
    THEN WithLast4(kb.base, PhoneGet(phones, BaseAndKind(kb)))
    ELSE IF PhoneGet(phones, kb.base) # <<>>
    THEN WithLast4(kb.base, PhoneGet(phones, kb.base))
    ELSE IF BestKey(keys, Upper(BaseAndKind(kb))) # <<>>
            /\ PhoneGet(phones, BestKey(keys, Upper(BaseAndKind(kb)))) # <<>>
    THEN WithLast4(kb.base, PhoneGet(phones, BestKey(keys, Upper(BaseAndKind(kb)))))
    ELSE kb.base

DecorateWithPhones(kb, phones, inv, doc) ==
    DecorateResolved(kb, phones, PhoneKeys(phones, inv, doc))

\* the description after the already-decorated test
DecorateParsed(inv, desc, kb, doc) ==
    IF kb.base = <<>> THEN desc
    ELSE IF Upper(kb.base) \in {W_VOICE, W_SMS} THEN desc
    ELSE DecorateWithPhones(kb, _phones_map_from_inv(inv, doc), inv, doc)

\* mutant: no test for a suffix that is already there
decorate_with_last4_kind_redecorating(inv, desc, doc) ==
    IF Strip(desc) = <<>> THEN desc
    ELSE DecorateParsed(inv, desc, _infer_kind_and_base(desc), doc)

decorate_with_last4_kind(inv, desc, doc) ==
    IF Strip(desc) = <<>> THEN desc
    ELSE IF EndsWithLast4(desc, 3) THEN desc
    ELSE DecorateParsed(inv, desc, _infer_kind_and_base(desc), doc)

\* s.split(sep, 1)[0].strip() if sep in s else s
LeftOf(s, sep) == IF Find(s, sep) # 0 THEN Strip(SubSeq(s, 1, Find(s, sep) - 1)) ELSE s

\* s.replace(EmDash, "-")
ReplaceEmDash(s) == [i \in 1..Len(s) |-> IF s[i] = EmDash THEN "-" ELSE s[i]]

\* _normalize_site_key of the application
app_normalize_site_key(s) ==
    CollapseSpaces(
        LeftOf(LeftOf(StripSuffix(StripSuffix(ReplaceEmDash(Strip(Upper(s))), S_VOICE), S_SMS),
                      <<" ", "-", " ">>),
               <<EnDash>>))

\* {_normalize_site_key(k): v for k, v in site_phones.items()}
RECURSIVE AppPhonesFrom(_, _, _)
AppPhonesFrom(phones, sp, k) ==
    IF k > Len(sp) THEN phones
    ELSE AppPhonesFrom(DictSet(phones, app_normalize_site_key(sp[k].key), sp[k].value),
                       sp, k + 1)

\* the last-4 for the stripped description, <<>> for None
AppLookup(desc, phones) ==
    IF PhoneGet(phones, app_normalize_site_key(desc)) # <<>>
    THEN PhoneGet(phones, app_normalize_site_key(desc))
    ELSE IF Contains(desc, <<EnDash>>)
    THEN PhoneGet(phones, app_normalize_site_key(LeftOf(desc, <<EnDash>>)))
    ELSE <<>>

\* the description of one line item after the pass
AppDecorated(description, phones) ==
    IF Strip(description) = <<>> THEN description
    ELSE IF EndsWithLast4(Strip(description), 4) THEN description
    ELSE IF IsLast4(AppLookup(Strip(description), phones))
    THEN Strip(description) \o <<" ", "(", "-">>
             \o AppLookup(Strip(description), phones) \o <<")">>
    ELSE description

decorate_descriptions_with_last4(inv, site_phones) ==
    [inv EXCEPT !.line_items =
        [i \in 1..Len(@) |->
            [@[i] EXCEPT !.description =
                AppDecorated(@, AppPhonesFrom(<<>>, site_phones, 1))]]]

----------------------------------------------------------------------------
(* Decoration runs: an invoice that holds up to MaxItems line items and up  *)
(* to MaxOverrides entries of site_phones gets the voice items of a batch,  *)
(* is decorated by the application and is written by the exporter           *)

MaxItems == 1
MaxOverrides == 1

L_LobbyEast == <<"L","o","b","b","y"," ","E","a","s","t">>
PH_1111 == <<"1","1","1","1">>
PH_2222 == <<"2","2","2","2">>
PH_3333 == <<"3","3","3","3">>
PH_5551111 == <<"5","5","5","1","1","1","1">>

\* a registry whose sites have 4-digit phones, one site name containing
\* another
DecorRegistry ==
    [version |-> 2,
     clients |-> << [name |-> L_Acme,
                     divisions |-> << [name |-> L_West,
                                       sites |-> << [name |-> L_Lobby, phone |-> PH_3333],
                                                    [name |-> L_Annex, phone |-> <<"0","0","0","0">>],
                                                    [name |-> L_LobbyEast, phone |-> PH_2222] >>] >>] >>]

\* a registry without any 4-digit phone
NoLast4Registry ==
    [version |-> 2,
     clients |-> << [name |-> L_Acme,
                     divisions |-> << [name |-> L_West,
                                       sites |-> << [name |-> L_Lobby, phone |-> SP_5309] >>] >>] >>]

X_9999 == <<" ","(","-","9","9","9","9",")">>
X_999 == <<" ","(","-","9","9","9",")">>
L_LOBBY == <<"L","O","B","B","Y">>
L_AnnexSMS == <<"A","n","n","e","x"," ","S","M","S">>

\* the descriptions a caller has put on the invoice with add_line_item
DecorDescriptions ==
    {L_Lobby \o X_9999, L_LobbySMS \o X_9999, L_Lobby \o X_999,
     L_LobbySMS, L_Lobby, L_LOBBY, L_AnnexSMS, L_Lobby \o S_Voice,
     L_LobbySMS \o S_Voice}

\* the entries inv['site_phones'] is drawn from
OverrideEntries ==
    {[key |-> k, value |-> v] : k \in {L_Lobby, L_Annex}, v \in {PH_1111, PH_5551111}}

\* the mappings of up to MaxOverrides entries, no key twice
DecorOverrides ==
    {sp \in SeqsUpTo(OverrideEntries, MaxOverrides) :
        \A i, j \in 1..Len(sp) : sp[i].key = sp[j].key => i = j}

\* add_line_item for each description, from the first
RECURSIVE WithLineItems(_, _)
WithLineItems(inv, descs) ==
    IF descs = <<>> THEN inv
    ELSE WithLineItems(add_line_item(inv, descs[1], 1, UNIT_PRICE_SMS), Tail(descs))

\* inv['site_phones'] = sp, for a mapping that has entries
WithSitePhones(inv, sp) ==
    IF sp = <<>> THEN inv
    ELSE [k \in DOMAIN inv \cup {"site_phones"} |->
             IF k = "site_phones" THEN sp ELSE inv[k]]

DecorBatches ==
    {<<>>} \cup {<<[file |-> F_calls2, path |-> P_cm, site_name |-> n]>> :
                    n \in {L_Lobby, L_LobbyVOICE, L_Annex}}
           \cup {<<[file |-> Unreadable, path |-> P_cm, site_name |-> L_Lobby]>>}

InitDecorate ==
    /\ target = [kind |-> "calls", year |-> 2025, month |-> 5]
    /\ csv \in DecorBatches
    /\ clients_doc \in {DecorRegistry, NoLast4Registry}
    /\ res = NoRes
    /\ disk = <<>> /\ tree = <<>> /\ year_var = <<>> /\ month_var = <<>>
    /\ \E descs \in SeqsUpTo(DecorDescriptions, MaxItems), sp \in DecorOverrides :
           inv_obj = WithSitePhones(
                         WithLineItems(new_monthly_invoice(target.year, target.month), descs),
                         sp)
    /\ msgbox = NoBox

\* the text the exporter writes for each line item, with the description it
\* was made from
ExportedRows(inv, doc) ==
    [i \in 1..Len(inv.line_items) |->
        [raw |-> inv.line_items[i].description,
         text |-> decorate_with_last4_kind(inv, inv.line_items[i].description, doc)]]

ExportInvoice ==
    /\ res' = [res EXCEPT !.ops = @ \cup {"decorate_with_last4_kind"},
                          !.exported = ExportedRows(inv_obj, clients_doc)]
    /\ UNCHANGED <<csv, target, clients_doc, disk, tree, year_var, month_var,
                   inv_obj, msgbox>>

DecorateDescriptionsWithLast4 ==
    /\ "decorate_descriptions_with_last4" \notin res.ops
    /\ inv_obj' = decorate_descriptions_with_last4(inv_obj, SitePhonesOf(inv_obj))
    /\ res' = [res EXCEPT !.ops = @ \cup {"decorate_descriptions_with_last4"}]
    /\ UNCHANGED <<csv, target, clients_doc, disk, tree, year_var, month_var, msgbox>>

NextDecorate == AddVoiceItemsToInvoice \/ DecorateDescriptionsWithLast4 \/ ExportInvoice

SpecDecorate == InitDecorate /\ [][NextDecorate]_vars

----------------------------------------------------------------------------
(* Claims C19, C20 on the decoration runs                                   *)

\* the text ends in "(-DDDD)", D a digit
EndsInLast4(x) ==
    /\ Len(x) >= 7
    /\ SubSeq(x, Len(x) - 6, Len(x) - 5) = <<"(", "-">>
    /\ \A k \in (Len(x) - 4)..(Len(x) - 1) :
           x[k] \in {"0","1","2","3","4","5","6","7","8","9"}
    /\ x[Len(x)] = ")"

\* C19: decoration never re-decorates. A line item whose description ends
\* in "(-DDDD)" keeps its description through every step, the pass of
\* decorate_descriptions_with_last4 included, and the exporter writes such a
\* description as it is (decorate_with_last4_kind(x) = x), so that
\* decorating the written text again gives the same text.
C19_NeverRedecorates ==
    [][/\ \A i \in 1..Len(inv_obj.line_items) :
              EndsInLast4(inv_obj.line_items[i].description)
                  => /\ i <= Len(inv_obj'.line_items)
                     /\ inv_obj'.line_items[i].description
                            = inv_obj.line_items[i].description
       /\ \A i \in 1..Len(res'.exported) :
              EndsInLast4(res'.exported[i].raw)
                  => /\ res'.exported[i].text = res'.exported[i].raw
                     /\ decorate_with_last4_kind(inv_obj', res'.exported[i].text, clients_doc')
                            = res'.exported[i].text]_vars

\* both decorators have met a description that ends in "(-9999)" while the
\* phone map held another last-4 for its site
C19_Witness ==
    /\ {"decorate_with_last4_kind", "decorate_descriptions_with_last4"} \subseteq res.ops
    /\ clients_doc = DecorRegistry
    /\ SitePhonesOf(inv_obj) = <<[key |-> L_Lobby, value |-> PH_1111]>>
    /\ \E i \in 1..Len(res.exported) :
           /\ res.exported[i].raw = L_Lobby \o X_9999
           /\ inv_obj.line_items[i].description = L_Lobby \o X_9999

\* the last-4 that inv['site_phones'] gives for a site name, <<>> if none
OverrideLast4(name) ==
    IF \E i \in 1..Len(SitePhonesOf(inv_obj)) :
           SitePhonesOf(inv_obj)[i].key = name /\ Len(SitePhonesOf(inv_obj)[i].value) = 4
    THEN SitePhonesOf(inv_obj)[CHOOSE i \in 1..Len(SitePhonesOf(inv_obj)) :
                                   SitePhonesOf(inv_obj)[i].key = name].value
    ELSE <<>>

\* the last-4 that the registry gives for a site name, <<>> if none
RegistryLast4(name) ==
    IF clients_doc # DecorRegistry THEN <<>>
    ELSE IF name = L_Lobby THEN PH_3333
    ELSE IF name = L_Annex THEN <<"0","0","0","0">>
    ELSE IF name = L_LobbyEast THEN PH_2222
    ELSE <<>>

\* both sources give a last-4 for the site and the two differ
Conflicting(name) ==
    /\ OverrideLast4(name) # <<>>
    /\ RegistryLast4(name) # <<>>
    /\ OverrideLast4(name) # RegistryLast4(name)

\* the site an undecorated description or a batch label names
SiteNamed(text) ==
    IF text \in {L_Lobby, L_LOBBY, L_LobbySMS, L_LobbyVOICE, L_Lobby \o S_Voice} THEN L_Lobby
    ELSE IF text \in {L_Annex, L_AnnexSMS, L_Annex \o S_Voice} THEN L_Annex
    ELSE <<>>

\* the text carries the suffix of the override of its site
HasOverrideSuffix(text, name) ==
    EndsWith(text, <<" ", "(", "-">> \o OverrideLast4(name) \o <<")">>)

\* C20: when inv['site_phones'] and the registry both give a last-4 for a
\* site and the two differ, the suffix written into the description of that
\* site is the one of inv['site_phones'], both when the voice items are
\* built and when the exporter decorates.
C20_OverrideBeatsRegistry ==
    /\ \A i \in 1..Len(res.exported) :
           Conflicting(SiteNamed(res.exported[i].raw))
               => HasOverrideSuffix(res.exported[i].text, SiteNamed(res.exported[i].raw))
    /\ ("add_voice_items_to_invoice" \in res.ops \ res.raised /\ csv # <<>>
            /\ Conflicting(SiteNamed(csv[1].site_name)))
           => HasOverrideSuffix(inv_obj.line_items[Len(inv_obj.line_items)].description,
                                SiteNamed(csv[1].site_name))

----------------------------------------------------------------------------
(* Claim C21 on the decoration runs                                         *)

\* inv['site_phones'] has no entry for the site name
NoOverride(name) ==
    \A i \in 1..Len(SitePhonesOf(inv_obj)) : SitePhonesOf(inv_obj)[i].key # name

\* the last four digits of the phone the registry holds for a site name,
\* <<>> if it holds none: "555-867-5309" gives "5309"
RegistryLastDigits(name) ==
    IF clients_doc = NoLast4Registry
    THEN IF name = L_Lobby THEN <<"5","3","0","9">> ELSE <<>>
    ELSE RegistryLast4(name)

\* the text carries the suffix made of the registry's last four digits
HasRegistrySuffix(text, name) ==
    EndsWith(text, <<" ", "(", "-">> \o RegistryLastDigits(name) \o <<")">>)

\* C21: a site without an override whose registry phone has at least four
\* digits gets the suffix " (-DDDD)" of the last four digits of that phone,
\* whatever the formatting of the phone, both when the voice items are
\* built and when the exporter decorates.
C21_RegistryFallback ==
    /\ \A i \in 1..Len(res.exported) :
           (/\ SiteNamed(res.exported[i].raw) # <<>>
            /\ NoOverride(SiteNamed(res.exported[i].raw))
            /\ RegistryLastDigits(SiteNamed(res.exported[i].raw)) # <<>>)
               => HasRegistrySuffix(res.exported[i].text, SiteNamed(res.exported[i].raw))
    /\ ("add_voice_items_to_invoice" \in res.ops \ res.raised /\ csv # <<>>
            /\ NoOverride(SiteNamed(csv[1].site_name))
            /\ RegistryLastDigits(SiteNamed(csv[1].site_name)) # <<>>)
           => HasRegistrySuffix(inv_obj.line_items[Len(inv_obj.line_items)].description,
                                SiteNamed(csv[1].site_name))

----------------------------------------------------------------------------
(* Claim C22 on the view runs                                               *)

\* the listed rows of the file whose source number is in no registry site
\* (e/cm.csv, written out by hand); each holds one call, of June 2025
UnmatchedRows == {i \in 1..Len(tree) : tree[i].file = P_e_cm}

\* Continue ran on a table of validated rows that lists an unmatched file
UnmatchedFileContinued ==
    ContinueRan /\ PeriodIsValid /\ RowsWithoutOk = {} /\ UnmatchedRows # {}

\* the calls of e/cm.csv in the period of the invoice (written out by hand)
UnmatchedUsage == IF inv_obj.year = 2025 /\ inv_obj.month = 6 THEN 1 ELSE 0

L_unassigned == <<"U","N","A","S","S","I","G","N","E","D">>
D_cmVoiceItem == <<"c","m"," ","V","o","i","c","e">>

----------------------------------------------------------------------------
(* Totals runs: add_line_item, add_voice_items_to_invoice,                  *)
(* add_message_items_to_invoice and set_tax_rate in any order on one        *)
(* invoice of up to MaxLineItems line items                                 *)

MaxLineItems == 2

\* unit prices in cents and quantities a caller passes to add_line_item
ItemPrices == {14, 20}
ItemQuantities == {0, 2, 3}

\* tax rates in hundredths of a percent: 0.0, 0.0825, 0.1
TaxRates == {0, 825, 1000}

TotalsVoiceBatches ==
    {<<[file |-> F_calls2, path |-> P_cm, site_name |-> L_Lobby]>>,
     <<[file |-> F_calls0, path |-> P_cm, site_name |-> <<>>]>>}

TotalsMessageBatches ==
    {<<[file |-> F_msgs3, path |-> P_mm, site_name |-> L_Lobby]>>,
     <<[file |-> F_msgs0, path |-> P_mm, site_name |-> L_Annex]>>}

InitTotals ==
    /\ PureIdle
    /\ clients_doc = ViewRegistry
    /\ disk = <<>> /\ tree = <<>> /\ year_var = <<>> /\ month_var = <<>>
    /\ inv_obj = new_monthly_invoice(2025, 5)
    /\ msgbox = NoBox

AddLineItem ==
    /\ Len(inv_obj.line_items) < MaxLineItems
    /\ \E qty \in ItemQuantities, unit_price \in ItemPrices :
           inv_obj' = add_line_item(inv_obj, L_Annex, qty, unit_price)
    /\ UNCHANGED <<csv, target, res, clients_doc, disk, tree, year_var, month_var, msgbox>>

AddVoiceItems ==
    /\ Len(inv_obj.line_items) < MaxLineItems
    /\ \E files_with_sites \in TotalsVoiceBatches :
           inv_obj' = add_voice_items_to_invoice(inv_obj, files_with_sites,
                          inv_obj.year, inv_obj.month, UNIT_PRICE_VOICE, clients_doc)
    /\ UNCHANGED <<csv, target, res, clients_doc, disk, tree, year_var, month_var, msgbox>>

AddMessageItems ==
    /\ Len(inv_obj.line_items) < MaxLineItems
    /\ \E messages_with_sites \in TotalsMessageBatches :
           inv_obj' = add_message_items_to_invoice(inv_obj, messages_with_sites,
                          inv_obj.year, inv_obj.month, UNIT_PRICE_SMS)
    /\ UNCHANGED <<csv, target, res, clients_doc, disk, tree, year_var, month_var, msgbox>>

SetTaxRate ==
    /\ \E tax_rate \in TaxRates : inv_obj' = set_tax_rate(inv_obj, tax_rate)
    /\ UNCHANGED <<csv, target, res, clients_doc, disk, tree, year_var, month_var, msgbox>>

NextTotals == AddLineItem \/ AddVoiceItems \/ AddMessageItems \/ SetTaxRate

SpecTotals == InitTotals /\ [][NextTotals]_vars

\* the sum of the amounts of the line items k..
RECURSIVE AmountsFrom(_)
AmountsFrom(k) ==
    IF k > Len(inv_obj.line_items) THEN 0
    ELSE inv_obj.line_items[k].amount + AmountsFrom(k + 1)

\* C23: after any sequence of the four operations every line item has
\* amount = quantity x unit price (in cents), the subtotal is the sum of the
\* amounts of all line items and the total is the subtotal plus the tax.
C23_TotalsConsistent ==
    /\ \A k \in 1..Len(inv_obj.line_items) :
           inv_obj.line_items[k].amount
               = inv_obj.line_items[k].qty * inv_obj.line_items[k].unit_price
    /\ inv_obj.subtotal = AmountsFrom(1)
    /\ inv_obj.total = inv_obj.subtotal + inv_obj.tax

\* two line items, one of them built from a calls file, under a tax rate
\* that gives a tax
C23_Witness ==
    /\ Len(inv_obj.line_items) = 2
    /\ \E k \in 1..2 : inv_obj.line_items[k].description = L_Lobby \o S_Voice
    /\ \E k \in 1..2 : inv_obj.line_items[k].description = L_Annex
    /\ inv_obj.tax > 0
    /\ inv_obj.total > inv_obj.subtotal

----------------------------------------------------------------------------
(* Registry runs: the view runs over a version-2 registry, a legacy         *)
(* registry (version 1, suborgs) and a registry without a version           *)

LegacyRegistry ==
    [version |-> 1,
     clients |-> << [name |-> L_Acme,
                     suborgs |-> << [name |-> L_Lobby, phone |-> SP_5309],
                                    [name |-> L_Annex, phone |-> <<"0","0","0","0">>] >>] >>]

UnversionedRegistry == [clients |-> ViewRegistry.clients]

InitRegistry ==
    /\ PureIdle
    /\ clients_doc \in {ViewRegistry, LegacyRegistry, UnversionedRegistry}
    /\ disk = ViewDisk
    /\ tree = <<>>
    /\ year_var = Y_2025
    /\ month_var \in {M_5, M_6}
    /\ inv_obj = NoInvoice
    /\ msgbox = NoBox

SpecRegistry == InitRegistry /\ [][NextView]_vars

(* Claim C24 *)

\* the legacy registry in the 3-level shape (written out by hand)
LegacyRegistryMigrated ==
    [version |-> 2,
     clients |-> << [name |-> L_Acme, address |-> <<>>,
                     divisions |-> << [id |-> NewId, name |-> L_General,
                                       sites |-> << [id |-> NewId, name |-> L_Lobby,
                                                     phone |-> SP_5309],
                                                    [id |-> NewId, name |-> L_Annex,
                                                     phone |-> <<"0","0","0","0">>] >>] >>] >>]

\* the registry file after load_clients has read it (written out by hand)
StoredAfterLoad ==
    IF clients_doc = LegacyRegistry THEN LegacyRegistryMigrated
    ELSE IF clients_doc = UnversionedRegistry THEN ViewRegistry
    ELSE clients_doc

\* C24 as stated: no step of the pipeline changes the registry.
C24_RegistryNeverChanges == [][clients_doc' = clients_doc]_vars

\* C24 (amended): the registry is written by load_clients in add_files and
\* by nothing else. A version-2 registry is left as it is; a legacy
\* registry is migrated and stored when files are added: the suborgs of each
\* client become the sites of one division "General", with their names and
\* phones in their order, and a registry without a version gets version 2.
C24_OnlyMigrationChangesRegistry ==
    [][IF Len(tree') > Len(tree)
       THEN clients_doc' = StoredAfterLoad
       ELSE clients_doc' = clients_doc]_vars

\* files were added over the legacy registry, and a listed file was matched
\* to a site of the migrated registry
C24_Witness ==
    /\ clients_doc = LegacyRegistryMigrated
    /\ \E i \in 1..Len(tree) :
           tree[i].match = L_Acme \o <<" ", ">", " ">> \o L_General
                               \o <<" ", ">", " ">> \o L_Lobby

(***************************************************************************)
(* C25, C26: what the exporter keeps of a description and which site it    *)
(* resolves                                                                *)
(***************************************************************************)

\* the kind token a description of the form "<site> VOICE" or "<site> SMS"
\* ends with, upper-cased; <<>> for the other descriptions
KindTokenOf(text) ==
    IF text \in {L_LobbySMS, L_AnnexSMS} THEN W_SMS
    ELSE IF text \in {L_LobbyVOICE, L_Lobby \o S_Voice} THEN W_VOICE
    ELSE <<>>

\* C25: for a description of the form "<site> VOICE" or "<site> SMS", in any
\* letter case of the kind token, the text the exporter writes still contains
\* the kind token, with a last-4 suffix and without one.
C25_ExportKeepsKindToken ==
    \A i \in 1..Len(res.exported) :
        KindTokenOf(res.exported[i].raw) # <<>>
            => Contains(Upper(res.exported[i].text), KindTokenOf(res.exported[i].raw))

\* C26: when the site name of a description, upper-cased and without its kind
\* qualifier, equals a name of the phone map, the exporter uses the last-4 of
\* exactly that site, even if a longer name of the map overlaps the
\* description too.
C26_ExactMatchBeforeSubstring ==
    \A i \in 1..Len(res.exported) :
        (/\ SitePhonesOf(inv_obj) = <<>>
         /\ SiteNamed(res.exported[i].raw) # <<>>
         /\ RegistryLast4(SiteNamed(res.exported[i].raw)) # <<>>)
            => EndsWith(res.exported[i].text,
                        <<" ", "(", "-">> \o RegistryLast4(SiteNamed(res.exported[i].raw))
                            \o <<")">>)

(***************************************************************************)
(* C30: decorating the exporter's own output                               *)
(***************************************************************************)

\* C30: for every description d and a fixed phone map, decorating the text
\* that decorate_with_last4_kind gave for d gives that text again, also for
\* descriptions with several kind tokens and for sites without a phone.
C30_ExportDecorationIdempotent ==
    \A i \in 1..Len(res.exported) :
        decorate_with_last4_kind(inv_obj, res.exported[i].text, clients_doc)
            = res.exported[i].text

(***************************************************************************)
(* C27: one quantity per site label                                        *)
(***************************************************************************)

\* the label a pair of the batch is aggregated under: its site name, or the
\* stem of its path (written out by hand)
LabelName(fs) ==
    IF fs.site_name # <<>> THEN fs.site_name
    ELSE IF target.kind = "calls" THEN <<"c","m">> ELSE <<"m","m">>

BatchLabels == {LabelName(csv[k]) : k \in 1..Len(csv)}

\* the billed units of one file in May 2025 (written out by hand): rows of
\* the period for calls, ceil(segments / 2) of the rows of the period for
\* messages
UnitsOf(f) ==
    IF f = F_calls2 THEN 2
    ELSE IF f = F_msgs3 THEN 3
    ELSE 0

\* the units of the first k files of the batch that carry the label
RECURSIVE UnitsUnder(_, _)
UnitsUnder(label, k) ==
    IF k = 0 THEN 0
    ELSE UnitsUnder(label, k - 1)
         + (IF LabelName(csv[k]) = label THEN UnitsOf(csv[k].file) ELSE 0)

\* the description the line item of a label gets (written out by hand)
DescribedAs(label) ==
    IF target.kind = "calls"
    THEN CASE label = L_Lobby -> D_LobbyVoice
           [] label = L_LobbyVOICE -> L_Lobby
           [] label = L_Annex -> D_AnnexVoice0000
           [] OTHER -> D_cmVoice
    ELSE CASE label = L_Lobby -> L_LobbySMS
           [] label = L_LobbySMS -> L_LobbySMS
           [] label = L_Annex -> D_AnnexSMS
           [] OTHER -> D_mmSMS

ItemsLike(d, q) ==
    {i \in 1..Len(inv_obj.line_items) :
        inv_obj.line_items[i].description = d /\ inv_obj.line_items[i].qty = q}

LabelsLike(d, q) ==
    {l \in BatchLabels : DescribedAs(l) = d /\ UnitsUnder(l, Len(csv)) = q}

ClassifierSegmentCol ==
    IF \E i \in 1..Len(csv.headers) :
           csv.headers[i] \in {H_NumSegments, H_Num_Segments_us, H_Num_Segments}
    THEN CHOOSE i \in 1..Len(csv.headers) :
             csv.headers[i] \in {H_NumSegments, H_Num_Segments_us, H_Num_Segments}
    ELSE 0

\* the segment count written in that column of row r, -1 when the cell is
\* missing or not a number
AcceptedSegments(r) ==
    IF ClassifierSegmentCol > Len(csv.rows[r]) THEN -1
    ELSE SegCountOf(csv.rows[r][ClassifierSegmentCol])

\* the units of rows 1..r when the counts are read from that column
RECURSIVE AcceptedUnitsUpTo(_)
AcceptedUnitsUpTo(r) ==
    IF r = 0 THEN 0
    ELSE AcceptedUnitsUpTo(r - 1)
         + (IF ~RowInPeriod(r) THEN 0
            ELSE IF AcceptedSegments(r) = -1 THEN 1
            ELSE (AcceptedSegments(r) + 1) \div 2)

\* C29: for every header that the classifier accepts as the segment-count
\* header, the aggregator reads the segment count of each row from that
\* column instead of taking the default of 1.
C29_AggregatorReadsClassifierColumn ==
    (Billed /\ ClassifierSegmentCol # 0 /\ sniff_csv(csv) = "messages")
        => BilledQty = AcceptedUnitsUpTo(Len(csv.rows))

(***************************************************************************)
(* C28: the 'ok' tags at the time of Continue                              *)
(***************************************************************************)

\* the one period all dated rows of a file on disk fall in, NoneYM when
\* they fall in two periods or the file is of neither kind (written out by
\* hand)
PeriodOfFile(path) ==
    CASE path = P_cm -> <<2025, 5>>
      [] path = P_mm -> <<2025, 5>>
      [] path = P_e_cm -> <<2025, 6>>
      [] OTHER -> NoneYM

====
